---- MODULE Spec2Model ----
(***************************************************************************)
(* TurboSerial v5: the writer pool, the type detector, the writer driver   *)
(* and the reader driver, as a state machine over one codec instance.      *)
(*                                                                         *)
(* Values.  A JavaScript value is a record with a field t:                 *)
(*   [t |-> "null"], [t |-> "undef"], [t |-> "bool", b |-> BOOLEAN],       *)
(*   [t |-> "num", n |-> Int]      an integral number in the int32 range,  *)
(*   [t |-> "flt", f |-> name]     a number that is not such an integer    *)
(*                                 ("NaN", "Infinity", "NegInfinity",      *)
(*                                 "NegZero" or a sample of FloatTable),   *)
(*   [t |-> "big", n |-> Int]      a BigInt,                               *)
(*   [t |-> "str", s |-> codes]    a string as its UTF-16 code units,      *)
(*   [t |-> "fn", src |-> codes, name |-> codes]   a function,             *)
(*   [t |-> "ref", id |-> i]       the heap object number i,               *)
(*   [t |-> "hole"]                an absent array index.                  *)
(* A heap is a sequence of nodes; a node is a record with a field k:       *)
(*   [k |-> "arr", el |-> values], [k |-> "obj", kv |-> <<key, value>>*]   *)
(*   (own enumerable data properties in insertion order, keys as codes),   *)
(*   [k |-> "map", kv |-> <<key value, value>>*], [k |-> "set", el |-> _], *)
(*   [k |-> "err", type |-> tag, msg |-> codes, stack |-> codes,           *)
(*    errors |-> values],                                                  *)
(*   [k |-> "buffer", bytes |-> bytes]   an ArrayBuffer,                   *)
(*   [k |-> "typed", type |-> tag, buf |-> i, byteOffset |-> n,            *)
(*    length |-> n]                a typed array over the buffer i.        *)
(***************************************************************************)
EXTENDS Integers, Sequences, FiniteSets, TLC

(***************************************************************************)
(* Program constants                                                       *)
(***************************************************************************)
CACHE_LINE_SIZE == 128
SIMD_ALIGNMENT == 8
INT8_MAX == 127
INT16_MAX == 32767
INT32_MAX == 2147483647

TYPE_NULL == 0
TYPE_UNDEFINED == 1
TYPE_FALSE == 2
TYPE_TRUE == 3
TYPE_INT8 == 16
TYPE_INT16 == 17
TYPE_INT32 == 18
TYPE_UINT32 == 19
TYPE_FLOAT32 == 20
TYPE_FLOAT64 == 21
TYPE_NAN == 22
TYPE_INFINITY == 23
TYPE_NEG_INFINITY == 24
TYPE_NEG_ZERO == 25
TYPE_VARINT == 26
TYPE_BIGINT_POS_SMALL == 32
TYPE_BIGINT_NEG_SMALL == 33
TYPE_BIGINT_POS_LARGE == 34
TYPE_BIGINT_NEG_LARGE == 35
TYPE_STRING_EMPTY == 48
TYPE_STRING_ASCII_TINY == 49
TYPE_STRING_ASCII_SHORT == 50
TYPE_STRING_ASCII_LONG == 51
TYPE_STRING_UTF8_TINY == 52
TYPE_STRING_UTF8_SHORT == 53
TYPE_STRING_UTF8_LONG == 54
TYPE_STRING_REF == 55
TYPE_ARRAY_EMPTY == 64
TYPE_ARRAY_DENSE == 65
TYPE_ARRAY_SPARSE == 66
TYPE_ARRAY_PACKED_I8 == 67
TYPE_ARRAY_PACKED_I16 == 68
TYPE_ARRAY_PACKED_I32 == 69
TYPE_ARRAY_PACKED_F32 == 70
TYPE_ARRAY_PACKED_F64 == 71
TYPE_OBJECT_EMPTY == 80
TYPE_OBJECT_PLAIN == 81
TYPE_OBJECT_LITERAL == 82
TYPE_OBJECT_CONSTRUCTOR == 83
TYPE_OBJECT_WITH_DESCRIPTORS == 84
TYPE_OBJECT_WITH_METHODS == 85
TYPE_UINT8ARRAY == 96
TYPE_INT8ARRAY == 97
TYPE_UINT8CLAMPEDARRAY == 98
TYPE_UINT16ARRAY == 99
TYPE_INT16ARRAY == 100
TYPE_UINT32ARRAY == 101
TYPE_INT32ARRAY == 102
TYPE_FLOAT32ARRAY == 103
TYPE_FLOAT64ARRAY == 104
TYPE_BIGINT64ARRAY == 105
TYPE_BIGUINT64ARRAY == 106
TYPE_DATAVIEW == 107
TYPE_ARRAYBUFFER == 112
TYPE_BUFFER_REF == 113
TYPE_MAP == 128
TYPE_SET == 129
TYPE_ERROR == 160
TYPE_AGGREGATE_ERROR == 167
TYPE_REFERENCE == 208
TYPE_CIRCULAR_REF == 209
TYPE_FUNCTION_PLACEHOLDER == 240

TYPE_GROUP_PRIMITIVE == 0
TYPE_GROUP_NUMBER == 16
TYPE_GROUP_BIGINT == 32
TYPE_GROUP_STRING == 48
TYPE_GROUP_ARRAY == 64
TYPE_GROUP_OBJECT == 80
TYPE_GROUP_TYPED == 96
TYPE_GROUP_BUFFER == 112
TYPE_GROUP_COLLECTION == 128
TYPE_GROUP_ERROR == 160
TYPE_GROUP_REFERENCE == 208
TYPE_GROUP_EXTENSION == 240

\* type & TYPE_MASK.GROUP
GroupOf(type) == (type \div 16) * 16

\* the lookup table BYTES_PER_ELEMENT (0 when the tag has no entry)
BYTES_PER_ELEMENT(type) ==
  CASE type \in {TYPE_UINT8ARRAY, TYPE_INT8ARRAY, TYPE_UINT8CLAMPEDARRAY} -> 1
    [] type \in {TYPE_UINT16ARRAY, TYPE_INT16ARRAY} -> 2
    [] type \in {TYPE_UINT32ARRAY, TYPE_INT32ARRAY, TYPE_FLOAT32ARRAY} -> 4
    [] type \in {TYPE_FLOAT64ARRAY, TYPE_BIGINT64ARRAY, TYPE_BIGUINT64ARRAY} -> 8
    [] type = TYPE_ARRAY_PACKED_I8 -> 1
    [] type = TYPE_ARRAY_PACKED_I16 -> 2
    [] type = TYPE_ARRAY_PACKED_I32 -> 4
    [] type = TYPE_ARRAY_PACKED_F32 -> 4
    [] type = TYPE_ARRAY_PACKED_F64 -> 8
    [] OTHER -> 0

(***************************************************************************)
(* Bounds of the model                                                     *)
(***************************************************************************)
\* serialize calls made on the instance in one behaviour
MaxCalls == 3
\* deserialize calls made in one behaviour
MaxDecodes == 2
\* nesting depth at which the walk of a value exhausts the call stack
MaxStack == 6
\* pool primitives called on a pool of its own in one behaviour
MaxPrimitives == 2

(***************************************************************************)
(* Arithmetic and sequence helpers                                         *)
(***************************************************************************)
Max(a, b) == IF a >= b THEN a ELSE b
Min(a, b) == IF a <= b THEN a ELSE b
Abs(a) == IF a < 0 THEN 0 - a ELSE a
Range(s) == {s[i] : i \in 1..Len(s)}
\* index of x in s (0 when absent); s has no duplicates where this is used
IndexOf(s, x) == IF \E i \in 1..Len(s) : s[i] = x
                 THEN CHOOSE i \in 1..Len(s) : s[i] = x /\ \A j \in 1..(i - 1) : s[j] # x
                 ELSE 0
\* byte k (0 = least significant) of the two's complement form of v
LEByte(v, k) ==
  CASE k = 0 -> v % 256
    [] k = 1 -> (v \div 256) % 256
    [] k = 2 -> (v \div 65536) % 256
    [] k = 3 -> (v \div 16777216) % 256
    [] OTHER -> IF v < 0 THEN 255 ELSE 0
LEBytes(v, n) == [i \in 1..n |-> LEByte(v, i - 1)]
\* the signed value of n little-endian bytes (n <= 4, or 8 with sign-extended top)
FromLE(bs, n) ==
  LET lo == bs[1] + (IF n >= 2 THEN bs[2] * 256 ELSE 0) + (IF n >= 3 THEN bs[3] * 65536 ELSE 0)
      top == IF n >= 4 THEN bs[4] ELSE IF n = 2 THEN bs[2] ELSE bs[1]
  IN  CASE n = 1 -> IF bs[1] >= 128 THEN bs[1] - 256 ELSE bs[1]
        [] n = 2 -> IF bs[2] >= 128 THEN (bs[1] + bs[2] * 256) - 65536 ELSE bs[1] + bs[2] * 256
        [] OTHER -> IF top >= 128 THEN lo + (top - 256) * 16777216 ELSE lo + top * 16777216

(***************************************************************************)
(* IEEE-754.  Integers are converted to and from their single and double   *)
(* bit patterns by the arithmetic of the format; the non-integers of the   *)
(* model are the samples of FloatTable, each with its two bit patterns     *)
(* (little-endian bytes) and whether Math.fround(x) == x.                  *)
(***************************************************************************)
Pow2(k) == IF k <= 0 THEN 1 ELSE 2 ^ k
\* floor(log2(a)) for a >= 1
Log2(a) == IF a < 2 THEN 0 ELSE CHOOSE k \in 1..30 : a \div Pow2(k) = 1

FloatTable ==
  [ half  |-> [f32 |-> <<0, 0, 0, 63>>, f64 |-> <<0, 0, 0, 0, 0, 0, 224, 63>>, fits32 |-> TRUE],
    tenth |-> [f32 |-> <<205, 204, 204, 61>>, f64 |-> <<154, 153, 153, 153, 153, 153, 185, 63>>,
               fits32 |-> FALSE] ]
FloatNames == DOMAIN FloatTable
SpecialF32 ==
  [ NaN |-> <<0, 0, 192, 127>>, Infinity |-> <<0, 0, 128, 127>>,
    NegInfinity |-> <<0, 0, 128, 255>>, NegZero |-> <<0, 0, 0, 128>> ]
SpecialF64 ==
  [ NaN |-> <<0, 0, 0, 0, 0, 0, 248, 127>>, Infinity |-> <<0, 0, 0, 0, 0, 0, 240, 127>>,
    NegInfinity |-> <<0, 0, 0, 0, 0, 0, 240, 255>>, NegZero |-> <<0, 0, 0, 0, 0, 0, 0, 128>> ]
SpecialNames == DOMAIN SpecialF32

\* an int32 n has an exact single iff its significant bits fit in 24
IntFitsF32(n) ==
  LET a == Abs(n)
      k == Log2(a)
  IN  n = 0 \/ k <= 23 \/ a % Pow2(k - 23) = 0
IntF32Bytes(n) ==
  IF n = 0 THEN <<0, 0, 0, 0>>
  ELSE LET a == Abs(n)
           s == IF n < 0 THEN 1 ELSE 0
           k == Log2(a)
           e == 127 + k
           fr == IF k <= 23 THEN (a - Pow2(k)) * Pow2(23 - k) ELSE (a - Pow2(k)) \div Pow2(k - 23)
       IN  <<fr % 256, (fr \div 256) % 256, (e % 2) * 128 + (fr \div 65536), s * 128 + (e \div 2)>>
IntF64Bytes(n) ==
  IF n = 0 THEN <<0, 0, 0, 0, 0, 0, 0, 0>>
  ELSE LET a == Abs(n)
           s == IF n < 0 THEN 1 ELSE 0
           k == Log2(a)
           e == 1023 + k
           m == a - Pow2(k)
           \* the 52 fraction bits as the top 28 and the low 24
           hi == IF k <= 28 THEN m * Pow2(28 - k) ELSE m \div Pow2(k - 28)
           lo == IF k <= 28 THEN 0 ELSE (m % Pow2(k - 28)) * Pow2(52 - k)
       IN  <<lo % 256, (lo \div 256) % 256, lo \div 65536,
             hi % 256, (hi \div 256) % 256, (hi \div 65536) % 256,
             (e % 16) * 16 + (hi \div 16777216), s * 128 + (e \div 16)>>
F32Bytes(v) == IF v.t = "num" THEN IntF32Bytes(v.n)
               ELSE IF v.f \in SpecialNames THEN SpecialF32[v.f] ELSE FloatTable[v.f].f32
F64Bytes(v) == IF v.t = "num" THEN IntF64Bytes(v.n)
               ELSE IF v.f \in SpecialNames THEN SpecialF64[v.f] ELSE FloatTable[v.f].f64
\* Math.fround(value) == value
FitsFloat32(v) ==
  IF v.t = "num" THEN IntFitsF32(v.n)
  ELSE IF v.f \in SpecialNames THEN v.f # "NaN"
  ELSE v.f \in FloatNames /\ FloatTable[v.f].fits32

\* DataView.getFloat32 / getFloat64: the number a bit pattern denotes
FloatOfF32(bs) ==
  LET s == bs[4] \div 128
      e == (bs[4] % 128) * 2 + (bs[3] \div 128)
      fr == (bs[3] % 128) * 65536 + bs[2] * 256 + bs[1]
      k == e - 127
  IN  IF e = 0 /\ fr = 0 THEN (IF s = 1 THEN [t |-> "flt", f |-> "NegZero"] ELSE [t |-> "num", n |-> 0])
      ELSE IF e = 255 THEN [t |-> "flt", f |-> IF fr # 0 THEN "NaN" ELSE IF s = 1 THEN "NegInfinity" ELSE "Infinity"]
      ELSE IF k >= 0 /\ k <= 23 /\ fr % Pow2(23 - k) = 0
      THEN [t |-> "num", n |-> (IF s = 1 THEN 0 - 1 ELSE 1) * (Pow2(k) + (fr \div Pow2(23 - k)))]
      ELSE IF k > 23 /\ k <= 30
      THEN [t |-> "num", n |-> (IF s = 1 THEN 0 - 1 ELSE 1) * ((8388608 + fr) * Pow2(k - 23))]
      ELSE IF \E f \in FloatNames : FloatTable[f].f32 = bs
      THEN [t |-> "flt", f |-> CHOOSE f \in FloatNames : FloatTable[f].f32 = bs]
      ELSE [t |-> "flt", f |-> "other"]
FloatOfF64(bs) ==
  LET s == bs[8] \div 128
      e == (bs[8] % 128) * 16 + (bs[7] \div 16)
      hi == (bs[7] % 16) * 16777216 + bs[6] * 65536 + bs[5] * 256 + bs[4]
      lo == bs[3] * 65536 + bs[2] * 256 + bs[1]
      k == e - 1023
  IN  IF e = 0 /\ hi = 0 /\ lo = 0
      THEN (IF s = 1 THEN [t |-> "flt", f |-> "NegZero"] ELSE [t |-> "num", n |-> 0])
      ELSE IF e = 2047
      THEN [t |-> "flt", f |-> IF hi # 0 \/ lo # 0 THEN "NaN" ELSE IF s = 1 THEN "NegInfinity" ELSE "Infinity"]
      ELSE IF k >= 0 /\ k <= 28 /\ lo = 0 /\ hi % Pow2(28 - k) = 0
      THEN [t |-> "num", n |-> (IF s = 1 THEN 0 - 1 ELSE 1) * (Pow2(k) + (hi \div Pow2(28 - k)))]
      ELSE IF k > 28 /\ k <= 30 /\ lo % Pow2(52 - k) = 0
      THEN [t |-> "num", n |-> (IF s = 1 THEN 0 - 1 ELSE 1)
                                  * (Pow2(k) + hi * Pow2(k - 28) + (lo \div Pow2(52 - k)))]
      ELSE IF \E f \in FloatNames : FloatTable[f].f64 = bs
      THEN [t |-> "flt", f |-> CHOOSE f \in FloatNames : FloatTable[f].f64 = bs]
      ELSE [t |-> "flt", f |-> "other"]

(***************************************************************************)
(* UltraMemoryPool.  The buffer is kept as the bytes up to the highest     *)
(* offset written so far; an ArrayBuffer is zero-filled, so every byte     *)
(* past that is 0.  bufId is the identity of the current ArrayBuffer and   *)
(* graves[i] the final contents of the i-th buffer that ensure replaced.   *)
(* The writer state W carries the pool with the reference tables, so that  *)
(* one value is threaded through the walk.                                 *)
(***************************************************************************)
ByteAt(u8, p) == IF p + 1 <= Len(u8) THEN u8[p + 1] ELSE 0
SetByte(u8, p, b) ==
  [i \in 1..Max(p + 1, Len(u8)) |-> IF i = p + 1 THEN b ELSE IF i <= Len(u8) THEN u8[i] ELSE 0]
\* the bytes bs stored from offset p on
SetBytes(u8, p, bs) ==
  [i \in 1..Max(p + Len(bs), Len(u8)) |->
     IF i > p /\ i <= p + Len(bs) THEN bs[i - p] ELSE IF i <= Len(u8) THEN u8[i] ELSE 0]
Prefix(u8, n) == [i \in 1..n |-> ByteAt(u8, i - 1)]

\* ((initialSize + CACHE_LINE_SIZE - 1) & ~(CACHE_LINE_SIZE - 1))
CacheAlign(n) == ((n + CACHE_LINE_SIZE - 1) \div CACHE_LINE_SIZE) * CACHE_LINE_SIZE

NewPool(initialSize) ==
  [u8 |-> <<>>, size |-> CacheAlign(initialSize), pos |-> 0, bufId |-> 1, graves |-> <<>>]

\* a pool that grows to the bytes required and no further
ensureExact(W, bytes) ==
  IF W.pos + bytes > W.size
  THEN [W EXCEPT !.graves = Append(@, W.u8), !.bufId = @ + 1,
                 !.u8 = Prefix(W.u8, Min(W.pos, W.size)), !.size = W.pos + bytes]
  ELSE W
ensure(W, bytes) ==
  LET required == W.pos + bytes IN
  IF required > W.size
  THEN LET newSize == Max(W.size * 2, required + CACHE_LINE_SIZE)
           alignedSize == CacheAlign(newSize)
       IN  [W EXCEPT !.graves = Append(@, W.u8),
                     !.bufId = @ + 1,
                     !.u8 = Prefix(W.u8, Min(W.pos, W.size)),
                     !.size = alignedSize]
  ELSE W

\* a pool that does not align: the position stays where it is
alignPosOmitted(W, alignment) == W
\* the position moves up to the next multiple; the bytes skipped are not written
alignPos(W, alignment) ==
  LET np == ((W.pos + alignment - 1) \div alignment) * alignment
  IN  [W EXCEPT !.pos = np, !.pad = @ \cup (W.pos..(np - 1))]

\* u8[pos++] = value, after ensure(1)
StoreU8(E, value) == [E EXCEPT !.u8 = SetByte(@, E.pos, value % 256), !.pos = @ + 1]
writeU8(W, value) == StoreU8(ensure(W, 1), value)

\* the shape shared by writeU16 .. writeBigInt64: align, ensure, store, advance
StoreScalar(E, bs, k) ==
  [E EXCEPT !.u8 = SetBytes(@, E.pos, bs), !.pos = @ + k,
            !.log = @ \cup {[off |-> E.pos, k |-> k]}]
WriteScalar(W, bs, k) == StoreScalar(ensure(alignPos(W, k), k), bs, k)
writeI16(W, value) == WriteScalar(W, LEBytes(value, 2), 2)
writeU32(W, value) == WriteScalar(W, LEBytes(value, 4), 4)
writeI32(W, value) == WriteScalar(W, LEBytes(value, 4), 4)
writeF32(W, value) == WriteScalar(W, F32Bytes(value), 4)
writeF64(W, value) == WriteScalar(W, F64Bytes(value), 8)
writeBigInt64(W, value) == WriteScalar(W, LEBytes(value, 8), 8)

\* a 32-bit unsigned value as its two 16-bit halves
Word(hi, lo) == [hi |-> hi, lo |-> lo]
\* value >>> 0
ToUint32(n) == Word((n \div 65536) % 65536, n % 65536)
\* value & 0x7F, value >>> 7 and value < n on the halves
Low7(u) == u.lo % 128
ShiftRight7(u) == Word(u.hi \div 128, (u.hi % 128) * 512 + u.lo \div 128)
Below(u, n) == u.hi = 0 /\ u.lo < n
RECURSIVE VarintLoop(_)
\* do { u8[pos++] = (value & 0x7F) | 0x80; value >>>= 7 } while (value >= 0x80); u8[pos++] = value
VarintLoop(u) ==
  IF Below(ShiftRight7(u), 128) THEN <<Low7(u) + 128, ShiftRight7(u).lo>>
  ELSE <<Low7(u) + 128>> \o VarintLoop(ShiftRight7(u))
\* the bytes of the small, the medium and the general path
VarintBytes(u) ==
  IF Below(u, 128) THEN <<u.lo>>
  ELSE IF Below(u, 16384) THEN <<Low7(u) + 128, ShiftRight7(u).lo>>
  ELSE VarintLoop(u)
StoreVarint(E, bs) == [E EXCEPT !.u8 = SetBytes(@, E.pos, bs), !.pos = @ + Len(bs)]
\* writeVarint(value) for the value u after value >>> 0
writeVarint32(W, u) == StoreVarint(ensure(W, 5), VarintBytes(u))
writeVarint(W, value) == writeVarint32(W, ToUint32(value))

StoreBulk(E, data, elementSize) ==
  [E EXCEPT !.u8 = SetBytes(@, E.pos, data), !.pos = @ + Len(data),
            !.log = IF elementSize > 1 THEN @ \cup {[off |-> E.pos, k |-> elementSize]} ELSE @]
\* u8.set(data, pos) after aligning to min(elementSize, SIMD_ALIGNMENT)
writeBulkAligned(W, data, elementSize) ==
  StoreBulk(ensure(alignPos(W, Min(elementSize, SIMD_ALIGNMENT)), Len(data)), data, elementSize)

RECURSIVE DecimalValue(_)
DecimalValue(s) == IF s = <<>> THEN 0 ELSE DecimalValue(SubSeq(s, 1, Len(s) - 1)) * 10 + (s[Len(s)] - 48)
\* the number a string converts to: 0 for the empty string, the value of a
\* string of decimal digits, NaN for a string that starts with a letter other
\* than the I of Infinity
StringToNumber(s) ==
  CASE s = <<>> -> [t |-> "num", n |-> 0]
    [] s # <<>> /\ (\A i \in 1..Len(s) : s[i] \in 48..57) -> [t |-> "num", n |-> DecimalValue(s)]
    [] s # <<>> /\ s[1] \in (65..90 \cup 97..122) \ {73} -> [t |-> "flt", f |-> "NaN"]
\* +value and the operand of value|0: the number a number, string, boolean,
\* null or undefined converts to
ToNumber(v) ==
  CASE v.t \in {"num", "flt"} -> v
    [] v.t = "null" -> [t |-> "num", n |-> 0]
    [] v.t = "undef" -> [t |-> "flt", f |-> "NaN"]
    [] v.t = "bool" -> [t |-> "num", n |-> IF v.b THEN 1 ELSE 0]
    [] v.t = "str" -> StringToNumber(v.s)
\* value|0 of a number that is an int32, 0 or -0, or NaN
Int32Of(n) == IF n.t = "num" THEN n.n ELSE 0
\* the element of a packed array as the typed-array view stores it: view.set
\* and view[i] = array[i]|0 store the int32 of the element, view[i] = +array[i]
\* the number it converts to
PackedElemBytes(v, elementType) ==
  CASE elementType = TYPE_ARRAY_PACKED_I8 -> LEBytes(Int32Of(ToNumber(v)), 1)
    [] elementType = TYPE_ARRAY_PACKED_I16 -> LEBytes(Int32Of(ToNumber(v)), 2)
    [] elementType = TYPE_ARRAY_PACKED_I32 -> LEBytes(Int32Of(ToNumber(v)), 4)
    [] elementType = TYPE_ARRAY_PACKED_F32 -> F32Bytes(ToNumber(v))
    [] elementType = TYPE_ARRAY_PACKED_F64 -> F64Bytes(ToNumber(v))
\* the bytes of the view after the loop: element i at offset i * elementSize
PackedSlots(slots, elementSize) ==
  [o \in 1..(Len(slots) * elementSize) |-> slots[((o - 1) \div elementSize) + 1][((o - 1) % elementSize) + 1]]
PackedBytes(array, elementType) ==
  PackedSlots([i \in 1..Len(array) |-> PackedElemBytes(array[i], elementType)],
              BYTES_PER_ELEMENT(elementType))
StorePacked(E, bytes, elementSize) ==
  [E EXCEPT !.u8 = SetBytes(@, E.pos, bytes),
            !.pos = @ + Len(bytes),
            !.log = @ \cup {[off |-> E.pos, k |-> elementSize]}]
PackedAligned(V, array, elementType, elementSize) ==
  StorePacked(ensure(alignPos(V, Min(elementSize, 8)), Len(array) * elementSize),
              PackedBytes(array, elementType), elementSize)
writePackedArray(W, array, elementType) ==
  PackedAligned(writeVarint(W, Len(array)), array, elementType, BYTES_PER_ELEMENT(elementType))

\* reset: only the position moves; the bytes stay
reset(W) == [W EXCEPT !.pos = 0]

(***************************************************************************)
(* Strings and properties                                                  *)
(***************************************************************************)
\* TextEncoder.encode of one code unit (no surrogate pairs in the model)
Utf8OfCode(c) ==
  IF c < 128 THEN <<c>>
  ELSE IF c < 2048 THEN <<192 + (c \div 64), 128 + (c % 64)>>
  ELSE <<224 + (c \div 4096), 128 + ((c \div 64) % 64), 128 + (c % 64)>>
RECURSIVE Utf8Encode(_)
Utf8Encode(s) == IF s = <<>> THEN <<>> ELSE Utf8OfCode(Head(s)) \o Utf8Encode(Tail(s))
RECURSIVE Utf8Decode(_)
\* TextDecoder.decode: malformed input yields U+FFFD
Utf8Decode(bs) ==
  IF bs = <<>> THEN <<>>
  ELSE LET b == Head(bs) IN
       IF b < 128 THEN <<b>> \o Utf8Decode(Tail(bs))
       ELSE IF b >= 192 /\ b < 224 /\ Len(bs) >= 2 /\ bs[2] \div 64 = 2
       THEN <<(b - 192) * 64 + (bs[2] - 128)>> \o Utf8Decode(SubSeq(bs, 3, Len(bs)))
       ELSE IF b >= 224 /\ b < 240 /\ Len(bs) >= 3 /\ bs[2] \div 64 = 2 /\ bs[3] \div 64 = 2
       THEN <<(b - 224) * 4096 + (bs[2] - 128) * 64 + (bs[3] - 128)>> \o Utf8Decode(SubSeq(bs, 4, Len(bs)))
       ELSE <<65533>> \o Utf8Decode(Tail(bs))

RECURSIVE StrLess(_, _)
\* a < b by UTF-16 code units, the order of Array.prototype.sort()
StrLess(a, b) ==
  IF b = <<>> THEN FALSE
  ELSE IF a = <<>> THEN TRUE
  ELSE IF Head(a) # Head(b) THEN Head(a) < Head(b)
  ELSE StrLess(Tail(a), Tail(b))
RECURSIVE InsertKey(_, _)
InsertKey(sorted, key) ==
  IF sorted = <<>> THEN <<key>>
  ELSE IF StrLess(key, Head(sorted)) THEN <<key>> \o sorted
  ELSE <<Head(sorted)>> \o InsertKey(Tail(sorted), key)
RECURSIVE SortKeys(_)
\* serializableKeys.sort()
SortKeys(keys) == IF keys = <<>> THEN <<>> ELSE InsertKey(SortKeys(Tail(keys)), Head(keys))

\* a data property with the default attributes
P(key, val) == [key |-> key, val |-> val, e |-> TRUE, w |-> TRUE, c |-> TRUE]
\* Object.keys(obj): the enumerable own string keys in property order
ObjectKeys(node) ==
  LET en == SelectSeq(node.kv, LAMBDA p : p.e) IN [i \in 1..Len(en) |-> en[i].key]
\* Object.getOwnPropertyNames(obj)
OwnPropertyNames(node) == [i \in 1..Len(node.kv) |-> node.kv[i].key]
\* the own property of obj named key
PropOf(node, key) == node.kv[CHOOSE i \in 1..Len(node.kv) : node.kv[i].key = key]
IsFunction(v) == v.t = "fn"

(***************************************************************************)
(* SIMDProcessor and UltraTypeDetector                                     *)
(***************************************************************************)
IsNumber(v) == v.t \in {"num", "flt"}
\* number == val, by the loose equality: null and undefined equal no number,
\* every other element is compared as the number it converts to
LooselyEquals(n, v) == v.t \notin {"null", "undef"} /\ n = ToNumber(v)
\* val == (val|0); -0 equals the 0 it is truncated to
IsInt32Valued(v) ==
  \/ LooselyEquals([t |-> "num", n |-> Int32Of(ToNumber(v))], v)
  \/ (v.t = "flt" /\ v.f = "NegZero")
\* the operand of Math.min and Math.max, for an element that passed val == (val|0)
IntOf(v) == Int32Of(ToNumber(v))
\* Math.fround(val) == val
FroundEquals(v) == v.t \notin {"null", "undef"} /\ FitsFloat32(ToNumber(v))
IsPow2(len) == \E k \in 0..30 : Pow2(k) = len

canOptimize(array) ==
  LET len == Len(array)
      isGoodSize == len >= 8 /\ (IsPow2(len) \/ len >= 16)
      sampleInterval == Max(1, len \div 32)
  IN  /\ isGoodSize
      /\ IsNumber(array[1])
      /\ \A i \in 1..len : ((i - 1) % sampleInterval = 0 /\ i - 1 >= sampleInterval) => IsNumber(array[i])

\* the largest member of a set of naturals, 0 if it is empty
Largest(S) == IF S = {} THEN 0 ELSE CHOOSE m \in S : \A n \in S : n <= m
\* Math.max(Math.abs(min), Math.abs(max)) over an all-integer array
MaxAbs(array) == Largest({Abs(IntOf(array[i])) : i \in 1..Len(array)})
\* the index typeIndex & 3 into [I32, I8, I16, I32]
PackedTypeIndex(absMax) ==
  ((IF absMax <= INT8_MAX THEN 1 ELSE 0) + (IF absMax <= INT16_MAX THEN 2 ELSE 0)
     + (IF absMax <= INT32_MAX THEN 4 ELSE 0)) % 4
analyzeNumericArray(array) ==
  LET isInteger == \A i \in 1..Len(array) : IsInt32Valued(array[i])
      canBeFloat32 == \A i \in 1..Len(array) : FroundEquals(array[i])
      types == <<TYPE_ARRAY_PACKED_I32, TYPE_ARRAY_PACKED_I8, TYPE_ARRAY_PACKED_I16, TYPE_ARRAY_PACKED_I32>>
  IN  IF isInteger THEN types[PackedTypeIndex(MaxAbs(array)) + 1]
      ELSE IF canBeFloat32 THEN TYPE_ARRAY_PACKED_F32 ELSE TYPE_ARRAY_PACKED_F64

detectNumber(value) ==
  IF value.t = "flt" /\ value.f = "NaN" THEN TYPE_NAN
  ELSE IF value.t = "flt" /\ value.f = "Infinity" THEN TYPE_INFINITY
  ELSE IF value.t = "flt" /\ value.f = "NegInfinity" THEN TYPE_NEG_INFINITY
  ELSE IF value.t = "flt" /\ value.f = "NegZero" THEN TYPE_NEG_ZERO
  ELSE IF value.t = "num"
  THEN LET absValue == Abs(value.n)
           typeIndex == (IF absValue <= INT8_MAX THEN 1 ELSE 0) + (IF absValue <= INT16_MAX THEN 2 ELSE 0)
                          + (IF absValue <= INT32_MAX THEN 4 ELSE 0)
           types == <<TYPE_VARINT, TYPE_INT8, TYPE_INT16, TYPE_INT32>>
       IN  types[Min(typeIndex, 3) + 1]
  ELSE IF FitsFloat32(value) THEN TYPE_FLOAT32 ELSE TYPE_FLOAT64

detectBigInt(value) == IF value.n < 0 THEN TYPE_BIGINT_NEG_SMALL ELSE TYPE_BIGINT_POS_SMALL

detectString(value) ==
  LET len == Len(value)
      isAscii == \A i \in 1..len : value[i] <= 127
      byteLength == Len(Utf8Encode(value))
  IN  IF len = 0 THEN TYPE_STRING_EMPTY
      ELSE IF isAscii
      THEN (IF len < 16 THEN TYPE_STRING_ASCII_TINY
            ELSE IF len < 256 THEN TYPE_STRING_ASCII_SHORT ELSE TYPE_STRING_ASCII_LONG)
      ELSE (IF byteLength < 16 THEN TYPE_STRING_UTF8_TINY
            ELSE IF byteLength < 256 THEN TYPE_STRING_UTF8_SHORT ELSE TYPE_STRING_UTF8_LONG)

detectArray(arr) ==
  LET len == Len(arr)
      filledCount == Cardinality({i \in 1..len : arr[i].t # "hole"})
      hasHoles == \E i \in 1..len : arr[i].t = "hole"
      sparsityThreshold == (len * 3) \div 4
  IN  IF len = 0 THEN TYPE_ARRAY_EMPTY
      ELSE IF hasHoles \/ filledCount < sparsityThreshold THEN TYPE_ARRAY_SPARSE
      ELSE IF canOptimize(arr) THEN analyzeNumericArray(arr)
      ELSE TYPE_ARRAY_DENSE

classifyObject(obj) ==
  LET isPlainObject == obj.proto \in {"Object", "null"}
      hasComplexDescriptors ==
        \E i \in 1..Len(obj.kv) :
          obj.kv[i].val.t = "getter" \/ ~obj.kv[i].e \/ ~obj.kv[i].w \/ ~obj.kv[i].c
      hasMethods == \E i \in 1..Len(obj.kv) : IsFunction(obj.kv[i].val)
  IN  IF ~isPlainObject THEN TYPE_OBJECT_CONSTRUCTOR
      ELSE IF Len(obj.kv) = 0 THEN TYPE_OBJECT_EMPTY
      ELSE IF hasComplexDescriptors THEN TYPE_OBJECT_WITH_DESCRIPTORS
      ELSE IF hasMethods THEN TYPE_OBJECT_WITH_METHODS
      ELSE TYPE_OBJECT_LITERAL

detectObject(node) ==
  CASE node.k = "map" -> TYPE_MAP
    [] node.k = "set" -> TYPE_SET
    [] node.k = "arr" -> detectArray(node.el)
    [] node.k = "err" -> node.type
    [] node.k = "typed" -> node.type
    [] node.k = "obj" -> classifyObject(node)

detect(H, value) ==
  CASE value.t = "null" -> TYPE_NULL
    [] value.t = "undef" -> TYPE_UNDEFINED
    [] value.t = "bool" -> (IF value.b THEN TYPE_TRUE ELSE TYPE_FALSE)
    [] value.t \in {"num", "flt"} -> detectNumber(value)
    [] value.t = "big" -> detectBigInt(value)
    [] value.t = "str" -> detectString(value.s)
    [] value.t = "ref" -> detectObject(H[value.id])
    [] value.t = "fn" -> TYPE_UNDEFINED

(***************************************************************************)
(* TurboSerial: the writer driver.  W is the instance's writer state: the  *)
(* pool, the tables refs, strings, buffers (a Map whose ids are the sizes  *)
(* at insertion is the sequence of its keys, id = index - 1), the cycle    *)
(* set circ, and err, the exception the walk has thrown ("none" if none).  *)
(* log and pad record, for the current call, the aligned blocks written    *)
(* and the offsets alignPos skipped.  H is the heap the value lives in, O  *)
(* the options of the instance.                                            *)
(***************************************************************************)
MAGIC == 1413632565

\* a resetState that leaves the string table as it is
resetStateKeepingStrings(W) ==
  [reset(W) EXCEPT !.refs = <<>>, !.circ = {}, !.buffers = <<>>,
                   !.log = {}, !.pad = {}, !.err = "none", !.depth = 0]
resetState(W) ==
  [reset(W) EXCEPT !.refs = <<>>, !.circ = {}, !.strings = <<>>, !.buffers = <<>>,
                   !.log = {}, !.pad = {}, !.err = "none", !.depth = 0]

\* the keys and values of a Map in iteration order
RECURSIVE Flatten(_)
Flatten(kv) == IF kv = <<>> THEN <<>> ELSE <<Head(kv)[1], Head(kv)[2]>> \o Flatten(Tail(kv))
\* the values detectCircularReferences descends into, in the order it does
WalkChildren(node) ==
  CASE node.k = "arr" -> SelectSeq(node.el, LAMBDA v : v.t # "hole")
    [] node.k = "map" -> Flatten(node.kv)
    [] node.k = "set" -> node.el
    [] node.k = "obj" -> LET en == SelectSeq(node.kv, LAMBDA p : p.e) IN [i \in 1..Len(en) |-> en[i].val]
    [] OTHER -> <<>>

\* An accessor property whose getter calls this.serialize(arg) on the instance
\* that is reading it, and returns ret.
Getter(arg, ret) == [t |-> "getter", arg |-> arg, ret |-> ret]
RECURSIVE serialize(_, _, _, _)
\* a read of obj[key] whose getter works on an instance of its own
GetDetached(W, H, O, val) == W
\* the instance after obj[key] is read in the frame of W: a data property is
\* read without effect, the getter runs the nested call
Get(W, H, O, val) ==
  IF val.t = "getter" THEN [serialize(W, H, O, val.arg) EXCEPT !.depth = W.depth] ELSE W
\* what obj[key] evaluates to
Got(val) == IF val.t = "getter" THEN val.ret ELSE val
\* a read inside try/catch; a nested call that throws is outside the model
Caught(N) == IF N.err # "none" THEN [N EXCEPT !.err = "OutOfModel"] ELSE N

\* the values that detectCircularReferences does not return from at once
\* (typeof value !== 'object' || value == null), and the accessors, whose read
\* runs the getter
Descended(vals) == SelectSeq(vals, LAMBDA v : v.t \in {"ref", "getter"})
RECURSIVE detectCircularReferences(_, _, _, _, _)
RECURSIVE detectCircularSeq(_, _, _, _, _)
\* adds to circularRefs (W.circ); visited holds the objects on the current path
detectCircularReferences(W, H, O, value, visited) ==
  IF value.t # "ref" \/ W.err # "none" THEN W
  ELSE IF value.id \in visited THEN [W EXCEPT !.circ = @ \cup {value.id}]
  ELSE detectCircularSeq(W, H, O, Descended(WalkChildren(H[value.id])), visited \cup {value.id})
\* this.detectCircularReferences(value[key], visited), for every key
detectCircularSeq(W, H, O, vals, visited) ==
  IF vals = <<>> \/ W.err # "none" THEN W
  ELSE detectCircularSeq(detectCircularReferences(Caught(Get(W, H, O, Head(vals))), H, O,
                                                  Got(Head(vals)), visited),
                         H, O, Tail(vals), visited)

writeNumber(W, value, type) ==
  CASE type = TYPE_INT8 -> writeU8(W, value.n)
    [] type = TYPE_INT16 -> writeI16(W, value.n)
    [] type = TYPE_INT32 -> writeI32(W, value.n)
    [] type = TYPE_UINT32 -> writeU32(W, value.n)
    [] type = TYPE_FLOAT32 -> writeF32(W, value)
    [] type = TYPE_FLOAT64 -> writeF64(W, value)
    [] type = TYPE_VARINT -> writeU8(writeVarint(W, Abs(value.n)), IF value.n < 0 THEN 1 ELSE 0)
    [] OTHER -> W

writeBigInt(W, value, type) ==
  IF type \in {TYPE_BIGINT_POS_SMALL, TYPE_BIGINT_NEG_SMALL} THEN writeBigInt64(W, value.n) ELSE W

RECURSIVE writeBytesU8(_, _)
\* for (i < len) writeU8(value.charCodeAt(i)): the first half of the loop, then
\* the second half on the state the first leaves
writeBytesU8(W, codes) ==
  IF codes = <<>> \/ W.err # "none" THEN W
  ELSE IF Len(codes) = 1 THEN writeU8(W, codes[1])
  ELSE writeBytesU8(writeBytesU8(W, SubSeq(codes, 1, Len(codes) \div 2)),
                    SubSeq(codes, (Len(codes) \div 2) + 1, Len(codes)))

writeString(W, value, type) ==
  LET len == Len(value)
      encoded == Utf8Encode(value)
  IN  CASE type = TYPE_STRING_EMPTY -> W
        [] type \in {TYPE_STRING_ASCII_TINY, TYPE_STRING_ASCII_SHORT} -> writeBytesU8(writeU8(W, len), value)
        [] type = TYPE_STRING_ASCII_LONG -> writeBytesU8(writeVarint(W, len), value)
        [] type \in {TYPE_STRING_UTF8_TINY, TYPE_STRING_UTF8_SHORT} ->
             writeBulkAligned(writeU8(W, Len(encoded)), encoded, 1)
        [] type = TYPE_STRING_UTF8_LONG -> writeBulkAligned(writeVarint(W, Len(encoded)), encoded, 1)
        [] OTHER -> W

Str(codes) == [t |-> "str", s |-> codes]
Null == [t |-> "null"]
Undefined == [t |-> "undef"]
Ref(id) == [t |-> "ref", id |-> id]

RECURSIVE writeValue(_, _, _, _)
RECURSIVE writeValues(_, _, _, _)
RECURSIVE writeSparseEntries(_, _, _, _, _)
RECURSIVE writeKeyValues(_, _, _, _, _)
RECURSIVE writeDescriptorEntries(_, _, _, _, _)
RECURSIVE writeMethodEntries(_, _, _, _)
RECURSIVE writeMapEntries(_, _, _, _)

\* for (const v of vals) this.writeValue(v)
writeValues(W, H, O, vals) ==
  IF vals = <<>> \/ W.err # "none" THEN W
  ELSE IF Len(vals) = 1 THEN writeValue(W, H, O, vals[1])
  ELSE writeValues(writeValues(W, H, O, SubSeq(vals, 1, Len(vals) \div 2)), H, O,
                   SubSeq(vals, (Len(vals) \div 2) + 1, Len(vals)))

\* for (i < count) { writeVarint(indices[i]); writeValue(values[i]) }
writeSparseEntries(W, H, O, array, i) ==
  IF i > Len(array) \/ W.err # "none" THEN W
  ELSE IF array[i].t = "hole" THEN writeSparseEntries(W, H, O, array, i + 1)
  ELSE writeSparseEntries(writeValue(writeVarint(W, i - 1), H, O, array[i]), H, O, array, i + 1)

writeSparseArray(W, H, O, array) ==
  LET len == Len(array)
      count == Cardinality({i \in 1..len : array[i].t # "hole"})
  IN  writeSparseEntries(writeVarint(writeVarint(W, len), count), H, O, array, 1)

writeArray(W, H, O, value, type) ==
  CASE type = TYPE_ARRAY_EMPTY -> W
    [] type = TYPE_ARRAY_DENSE -> writeValues(writeVarint(W, Len(value)), H, O, value)
    [] type = TYPE_ARRAY_SPARSE -> writeSparseArray(W, H, O, value)
    [] type \in {TYPE_ARRAY_PACKED_I8, TYPE_ARRAY_PACKED_I16, TYPE_ARRAY_PACKED_I32,
                 TYPE_ARRAY_PACKED_F32, TYPE_ARRAY_PACKED_F64} -> writePackedArray(W, value, type)
    [] OTHER -> W

\* this.writeValue(obj[key]): the property is read, then written
WriteRead(K, H, O, val) ==
  IF K.err # "none" THEN K ELSE writeValue(Get(K, H, O, val), H, O, Got(val))
\* for (const key of keys) { writeValue(key); writeValue(obj[key]) }
writeKeyValues(W, H, O, obj, keys) ==
  IF keys = <<>> \/ W.err # "none" THEN W
  ELSE writeKeyValues(WriteRead(writeValue(W, H, O, Str(Head(keys))), H, O, PropOf(obj, Head(keys)).val),
                      H, O, obj, Tail(keys))

\* keys.filter(key => typeof obj[key] !== 'function' || serializeFunctions)
SerializableKeys(obj, O, keys) ==
  SelectSeq(keys, LAMBDA key : ~IsFunction(Got(PropOf(obj, key).val)) \/ O.serializeFunctions)
RECURSIVE FilterReads(_, _, _, _, _)
\* the reads of obj[key] the filter makes, one for every key
FilterReads(W, H, O, obj, keys) ==
  IF keys = <<>> \/ W.err # "none" THEN W
  ELSE FilterReads(Caught(Get(W, H, O, PropOf(obj, Head(keys)).val)), H, O, obj, Tail(keys))

\* writeVarint(serializableKeys.length), then the key/value loop
WriteCountedKeys(W, H, O, obj, serializableKeys) ==
  writeKeyValues(writeVarint(W, Len(serializableKeys)), H, O, obj, serializableKeys)
writeSimpleObject(W, H, O, obj) ==
  WriteCountedKeys(FilterReads(W, H, O, obj, ObjectKeys(obj)), H, O, obj,
                   SortKeys(SerializableKeys(obj, O, ObjectKeys(obj))))

DescriptorFlags(p) == (IF p.e THEN 1 ELSE 0) + (IF p.w THEN 2 ELSE 0) + (IF p.c THEN 4 ELSE 0)
\* writeU8(flags), then writeValue(descriptor.value)
WriteDescriptor(K, H, O, p) ==
  IF K.err # "none" THEN K
  ELSE IF p.val.t = "getter" THEN [K EXCEPT !.err = "OutOfModel"]
  ELSE writeValue(writeU8(K, DescriptorFlags(p)), H, O, p.val)
writeDescriptorEntries(W, H, O, obj, keys) ==
  IF keys = <<>> \/ W.err # "none" THEN W
  ELSE writeDescriptorEntries(WriteDescriptor(writeValue(W, H, O, Str(Head(keys))), H, O, PropOf(obj, Head(keys))),
                              H, O, obj, Tail(keys))
WriteCountedDescriptors(W, H, O, obj, serializableKeys) ==
  writeDescriptorEntries(writeVarint(W, Len(serializableKeys)), H, O, obj, serializableKeys)
\* serializeFunctions || (!descriptor.get && !descriptor.set && typeof descriptor.value !== 'function')
DescriptorKeys(obj, O, keys) ==
  SelectSeq(keys, LAMBDA key : O.serializeFunctions
                                 \/ ~(IsFunction(PropOf(obj, key).val) \/ PropOf(obj, key).val.t = "getter"))
writeObjectWithDescriptors(W, H, O, obj) ==
  WriteCountedDescriptors(W, H, O, obj, DescriptorKeys(obj, O, OwnPropertyNames(obj)))

\* the entry [key, value, isFunction] pushed for a key
MethodEntryOf(O, key, value) ==
  IF IsFunction(value)
  THEN (IF O.serializeFunctions THEN [key |-> key, value |-> value, isFunction |-> TRUE]
        ELSE [key |-> key, value |-> Null, isFunction |-> FALSE])
  ELSE [key |-> key, value |-> value, isFunction |-> FALSE]
MethodEntry(obj, O, key) == MethodEntryOf(O, key, PropOf(obj, key).val)
\* after the isFunction byte: source and name, or the value, or the placeholder tag
WriteMethodBody(F, H, O, en) ==
  IF en.isFunction /\ O.serializeFunctions
  THEN writeValue(writeValue(F, H, O, Str(en.value.src)), H, O, Str(en.value.name))
  ELSE IF ~en.isFunction THEN writeValue(F, H, O, en.value)
  ELSE writeU8(F, TYPE_FUNCTION_PLACEHOLDER)
WriteMethod(K, H, O, en) ==
  IF K.err # "none" THEN K
  ELSE WriteMethodBody(writeU8(K, IF en.isFunction THEN 1 ELSE 0), H, O, en)
writeMethodEntries(W, H, O, entries) ==
  IF entries = <<>> \/ W.err # "none" THEN W
  ELSE writeMethodEntries(WriteMethod(writeValue(W, H, O, Str(Head(entries).key)), H, O, Head(entries)),
                          H, O, Tail(entries))
WriteCountedMethods(W, H, O, serializableEntries) ==
  writeMethodEntries(writeVarint(W, Len(serializableEntries)), H, O, serializableEntries)
MethodEntries(obj, O, keys) == [i \in 1..Len(keys) |-> MethodEntry(obj, O, keys[i])]
writeObjectWithMethods(W, H, O, obj) ==
  WriteCountedMethods(W, H, O, MethodEntries(obj, O, ObjectKeys(obj)))

WriteConstructorKeys(N, H, O, obj) ==
  IF N.err # "none" THEN N
  ELSE WriteCountedKeys(FilterReads(N, H, O, obj, ObjectKeys(obj)), H, O, obj,
                        SerializableKeys(obj, O, ObjectKeys(obj)))
writeConstructorObject(W, H, O, obj) ==
  WriteConstructorKeys(writeValue(W, H, O, Str(obj.ctor)), H, O, obj)

writeObject(W, H, O, value, type) ==
  CASE type = TYPE_OBJECT_EMPTY -> W
    [] type \in {TYPE_OBJECT_LITERAL, TYPE_OBJECT_PLAIN} -> writeSimpleObject(W, H, O, value)
    [] type = TYPE_OBJECT_WITH_DESCRIPTORS -> writeObjectWithDescriptors(W, H, O, value)
    [] type = TYPE_OBJECT_WITH_METHODS -> writeObjectWithMethods(W, H, O, value)
    [] type = TYPE_OBJECT_CONSTRUCTOR -> writeConstructorObject(W, H, O, value)
    [] OTHER -> W

\* for (const [key, val] of value) { writeValue(key); writeValue(val) }
writeMapEntries(W, H, O, kv) ==
  IF kv = <<>> \/ W.err # "none" THEN W
  ELSE writeMapEntries(writeValue(writeValue(W, H, O, Head(kv)[1]), H, O, Head(kv)[2]), H, O, Tail(kv))

writeCollection(W, H, O, value, type) ==
  CASE type = TYPE_MAP -> writeMapEntries(writeVarint(W, Len(value.kv)), H, O, value.kv)
    [] type = TYPE_SET -> writeValues(writeVarint(W, Len(value.el)), H, O, value.el)
    [] OTHER -> W

\* the errors of an AggregateError, after message and stack
WriteErrors(M, H, O, error, type) ==
  IF type = TYPE_AGGREGATE_ERROR /\ M.err = "none"
  THEN writeValues(writeVarint(M, Len(error.errors)), H, O, error.errors)
  ELSE M
writeError(W, H, O, error, type) ==
  WriteErrors(writeValue(writeValue(W, H, O, Str(error.msg)), H, O, Str(error.stack)), H, O, error, type)

\* refs.set(value, refs.size) / strings.set(value, strings.size) / buffers.set(buffer, buffers.size)
Register(table, key) == Append(table, key)

\* BYTES_PER_ELEMENT[type] || 1
ElementSize(type) == Max(1, BYTES_PER_ELEMENT(type))
\* new Uint8Array(buffer, byteOffset, length * elementSize)
TypedBytes(H, array) ==
  SubSeq(H[array.buf].bytes, array.byteOffset + 1,
         array.byteOffset + array.length * ElementSize(array.type))
RECURSIVE writeBigIntElements(_, _)
\* for (i < length) writeBigInt64(array[i])
writeBigIntElements(W, data) ==
  IF data = <<>> THEN W
  ELSE writeBigIntElements(WriteScalar(W, SubSeq(data, 1, 8), 8), SubSeq(data, 9, Len(data)))
\* the element block, after the flag, the byte offset and the length
WriteElements(M, data, type) ==
  IF type \in {TYPE_BIGINT64ARRAY, TYPE_BIGUINT64ARRAY}
  THEN writeBigIntElements(M, data)
  ELSE writeBulkAligned(M, data, ElementSize(type))
writeTypedArray(W, H, O, array, type) ==
  IF O.shareArrayBuffers /\ IndexOf(W.buffers, array.buf) > 0
  THEN writeVarint(writeVarint(writeVarint(writeU8(W, 1), IndexOf(W.buffers, array.buf) - 1),
                               array.byteOffset), array.length)
  ELSE WriteElements(writeVarint(writeVarint(writeU8(
                         [W EXCEPT !.buffers = IF O.shareArrayBuffers THEN Register(@, array.buf) ELSE @],
                         0), array.byteOffset), array.length),
                     TypedBytes(H, array), type)

\* the group dispatch at the end of writeValue
WriteByGroup(W, H, O, value, type) ==
  LET group == GroupOf(type) IN
  CASE group = TYPE_GROUP_PRIMITIVE -> W
    [] group = TYPE_GROUP_NUMBER -> writeNumber(W, value, type)
    [] group = TYPE_GROUP_BIGINT -> writeBigInt(W, value, type)
    [] group = TYPE_GROUP_STRING -> writeString(W, value.s, type)
    [] group = TYPE_GROUP_ARRAY -> writeArray(W, H, O, H[value.id].el, type)
    [] group = TYPE_GROUP_OBJECT -> writeObject(W, H, O, H[value.id], type)
    [] group = TYPE_GROUP_COLLECTION -> writeCollection(W, H, O, H[value.id], type)
    [] group = TYPE_GROUP_TYPED -> writeTypedArray(W, H, O, H[value.id], type)
    [] group = TYPE_GROUP_ERROR -> writeError(W, H, O, H[value.id], type)
    [] OTHER -> W


InCycleSet(W, value) == value.t = "ref" /\ value.id \in W.circ
\* writeU8(type) and the dispatch, one level deeper
WriteTagged(S, H, O, value, type) ==
  [WriteByGroup(writeU8([S EXCEPT !.depth = @ + 1], type), H, O, value, type) EXCEPT !.depth = S.depth]
\* Handle string deduplication
DedupString(D, H, O, value) ==
  IF O.deduplication /\ value.t = "str" /\ Len(value.s) > 3 /\ IndexOf(D.strings, value.s) > 0
  THEN writeVarint(writeU8(D, TYPE_STRING_REF), IndexOf(D.strings, value.s) - 1)
  ELSE WriteTagged(IF O.deduplication /\ value.t = "str" /\ Len(value.s) > 3
                   THEN [D EXCEPT !.strings = Register(@, value.s)] ELSE D,
                   H, O, value, detect(H, value))
\* Handle object deduplication
DedupObject(C, H, O, value) ==
  IF O.deduplication /\ value.t = "ref" /\ ~InCycleSet(C, value) /\ IndexOf(C.refs, value.id) > 0
  THEN writeVarint(writeU8(C, TYPE_REFERENCE), IndexOf(C.refs, value.id) - 1)
  ELSE DedupString(IF O.deduplication /\ value.t = "ref" /\ ~InCycleSet(C, value)
                   THEN [C EXCEPT !.refs = Register(@, value.id)] ELSE C,
                   H, O, value)
\* Handle circular references
HandleCircular(W, H, O, value) ==
  IF O.detectCircular /\ InCycleSet(W, value) /\ IndexOf(W.refs, value.id) > 0
  THEN writeVarint(writeU8(W, TYPE_CIRCULAR_REF), IndexOf(W.refs, value.id) - 1)
  ELSE DedupObject(IF O.detectCircular /\ InCycleSet(W, value)
                   THEN [W EXCEPT !.refs = Register(@, value.id)] ELSE W,
                   H, O, value)
writeValue(W, H, O, value) ==
  IF W.err # "none" THEN W
  ELSE IF W.depth >= MaxStack THEN [W EXCEPT !.err = "RangeError"]
  ELSE HandleCircular(W, H, O, value)

\* if (detectCircular) detectCircularReferences(value)
FindCircular(W, H, O, value) ==
  IF O.detectCircular THEN detectCircularReferences(W, H, O, value, {}) ELSE W
\* a serialize that leaves the version byte out
serializeUnversioned(W, H, O, value) ==
  writeValue(FindCircular(writeU32(resetState(W), MAGIC), H, O, value), H, O, value)
\* serialize up to the return: the state in which getResult is evaluated
serialize(W, H, O, value) ==
  writeValue(FindCircular(writeU8(writeU32(resetState(W), MAGIC), 5), H, O, value), H, O, value)

\* getResult: u8.subarray(0, pos), a view of the pool's current buffer
getResult(W) == [buf |-> W.bufId, len |-> W.pos]

(***************************************************************************)
(* TurboSerial: the reader driver.  R is the instance's reader state:      *)
(* buffer and pos, the tables deserializeRefs, deserializeStrings and      *)
(* deserializeBuffers, heap (the objects the reader has allocated; a new   *)
(* object gets the next index), and err, the exception thrown ("none" if   *)
(* none).  A read returns [r |-> the state after it, v |-> its result].    *)
(* err = "OutOfModel" marks a coercion of the host language that the model *)
(* does not compute.                                                       *)
(***************************************************************************)
\* the longest array the model materialises
MaxArrayLen == 64

Throw(R, e) == [R EXCEPT !.err = e]
Ret(R, v) == [r |-> R, v |-> v]
Failed(R) == R.err # "none"

ensureBytes(R, count) ==
  IF count > Len(R.buffer) - R.pos THEN Throw(R, "BufferUnderflow") ELSE R

readerAlignPos(R, alignment) ==
  [R EXCEPT !.pos = ((R.pos + alignment - 1) \div alignment) * alignment]

BytesAt(R, n) == [i \in 1..n |-> R.buffer[R.pos + i]]

\* the load and the advance of readU8, after its ensureBytes(1)
LoadU8(E) ==
  IF Failed(E) THEN Ret(E, 0) ELSE Ret([E EXCEPT !.pos = @ + 1], E.buffer[E.pos + 1])
readU8(R) == LoadU8(ensureBytes(R, 1))

\* the shape shared by readI16 .. readBigInt64: align, check, load, advance
LoadScalar(E, k) ==
  IF Failed(E) THEN Ret(E, <<>>) ELSE Ret([E EXCEPT !.pos = @ + k], BytesAt(E, k))
ReadScalar(R, k) == LoadScalar(ensureBytes(readerAlignPos(R, k), k), k)
\* view.getInt16 / getInt32 / getUint32 of the loaded bytes, little-endian
LEOf(x, k) == IF Failed(x.r) THEN Ret(x.r, 0) ELSE Ret(x.r, FromLE(x.v, k))
F32Of(x) == IF Failed(x.r) THEN Ret(x.r, 0) ELSE Ret(x.r, FloatOfF32(x.v))
F64Of(x) == IF Failed(x.r) THEN Ret(x.r, 0) ELSE Ret(x.r, FloatOfF64(x.v))
\* a 64-bit value fits the model when it is the sign extension of its low 32 bits
BigInt64Of(x) ==
  IF Failed(x.r) THEN Ret(x.r, 0)
  ELSE IF \A i \in 5..8 : x.v[i] = (IF x.v[4] >= 128 THEN 255 ELSE 0)
  THEN Ret(x.r, FromLE(x.v, 4))
  ELSE Ret(Throw(x.r, "OutOfModel"), 0)
readI16(R) == LEOf(ReadScalar(R, 2), 2)
readI32(R) == LEOf(ReadScalar(R, 4), 4)
\* the unsigned value, as the int32 with the same 32 bits
readU32(R) == LEOf(ReadScalar(R, 4), 4)
readF32(R) == F32Of(ReadScalar(R, 4))
readF64(R) == F64Of(ReadScalar(R, 8))
readBigInt64(R) == BigInt64Of(ReadScalar(R, 8))

\* bit i of a
BitAt(a, i) == (a \div Pow2(i)) % 2
\* x | y on four bits
OrNibble(x, y) ==
  CHOOSE r \in 0..15 : \A i \in 0..3 : BitAt(r, i) = (IF BitAt(x, i) = 1 \/ BitAt(y, i) = 1 THEN 1 ELSE 0)
\* a | b on sixteen bits, four at a time
BitOr(a, b) ==
  OrNibble(a % 16, b % 16) + 16 * OrNibble((a \div 16) % 16, (b \div 16) % 16)
    + 256 * OrNibble((a \div 256) % 16, (b \div 256) % 16)
    + 4096 * OrNibble((a \div 4096) % 16, (b \div 4096) % 16)
\* a shift that keeps only the bits below bit 28
WordShiftLeft28(part, shift) ==
  IF shift % 32 < 16 THEN Word(((part * Pow2(shift % 32)) \div 65536) % 65536, (part * Pow2(shift % 32)) % 65536)
  ELSE Word((part * Pow2((shift % 32) - 16)) % 4096, 0)
\* (part << shift) on 32 bits: the shift count is taken modulo 32 and the
\* bits above bit 31 are lost
WordShiftLeft(part, shift) ==
  IF shift % 32 < 16 THEN Word(((part * Pow2(shift % 32)) \div 65536) % 65536, (part * Pow2(shift % 32)) % 65536)
  ELSE Word((part * Pow2((shift % 32) - 16)) % 65536, 0)
\* value |= (byte & 0x7F) << shift
VarintOr(value, part) == Word(BitOr(value.hi, part.hi), BitOr(value.lo, part.lo))
RECURSIVE VarintRead(_, _, _)
VarintByte(N, byte, value, shift) ==
  IF byte >= 128 THEN VarintRead(N, VarintOr(value, WordShiftLeft(byte % 128, shift)), shift + 7)
  ELSE Ret(N, VarintOr(value, WordShiftLeft(byte % 128, shift)))
VarintLoad(E, value, shift) ==
  IF Failed(E) THEN Ret(E, Word(0, 0))
  ELSE VarintByte([E EXCEPT !.pos = @ + 1], E.buffer[E.pos + 1], value, shift)
VarintRead(R, value, shift) == VarintLoad(ensureBytes(R, 1), value, shift)
\* readVarint: value >>> 0, the 32-bit pattern as an unsigned number
readVarint32(R) == IF Failed(R) THEN Ret(R, Word(0, 0)) ELSE VarintRead(R, Word(0, 0), 0)
\* the number read where it is a length, a count or an id: a number of 2^31
\* or more is kept as INT32_MAX, which exceeds every length and table size here
Narrowed(x) == Ret(x.r, IF x.v.hi >= 32768 THEN INT32_MAX ELSE x.v.hi * 65536 + x.v.lo)
readVarint(R) == Narrowed(readVarint32(R))

\* allocation of a new object
Alloc(R, node) == [R EXCEPT !.heap = Append(@, node)]
NewId(R) == Len(R.heap) + 1
\* an ArrayBuffer, and a typed array over the buffer that is heap object buf
Buffer(bytes) == [k |-> "buffer", bytes |-> bytes]
Typed(type, buf, byteOffset, length) ==
  [k |-> "typed", type |-> type, buf |-> buf, byteOffset |-> byteOffset, length |-> length]

DigitCodes == <<48, 49, 50, 51, 52, 53, 54, 55, 56, 57>>
RECURSIVE DecimalCodes(_)
DecimalCodes(n) == IF n < 10 THEN <<DigitCodes[n + 1]>> ELSE DecimalCodes(n \div 10) \o <<DigitCodes[(n % 10) + 1]>>
\* ToPropertyKey(key) for obj[key]; the result <<0>> stands for a key the model does not compute
CanKey(v) == v.t \in {"str", "num", "null", "undef", "bool"}
KeyOf(v) ==
  CASE v.t = "str" -> v.s
    [] v.t = "num" -> (IF v.n < 0 THEN <<45>> ELSE <<>>) \o DecimalCodes(Abs(v.n))
    [] v.t = "null" -> <<110, 117, 108, 108>>
    [] v.t = "undef" -> <<117, 110, 100, 101, 102, 105, 110, 101, 100>>
    [] v.t = "bool" -> (IF v.b THEN <<116, 114, 117, 101>> ELSE <<102, 97, 108, 115, 101>>)
    [] OTHER -> <<0>>

\* obj[key] = val on an ordinary object: an existing writable property keeps its place
SetProp(kv, key, val) ==
  IF \E i \in 1..Len(kv) : kv[i].key = key
  THEN [i \in 1..Len(kv) |-> IF kv[i].key = key /\ kv[i].w THEN [kv[i] EXCEPT !.val = val] ELSE kv[i]]
  ELSE Append(kv, P(key, val))
\* Object.defineProperty(obj, key, descriptor) with a data descriptor
DefineProp(kv, p) ==
  IF \E i \in 1..Len(kv) : kv[i].key = p.key
  THEN [i \in 1..Len(kv) |-> IF kv[i].key = p.key THEN p ELSE kv[i]]
  ELSE Append(kv, p)
CanDefine(kv, p) == \A i \in 1..Len(kv) : kv[i].key = p.key => (kv[i].c \/ kv[i] = p)
\* array[index] = val
SetIndex(el, index, val) ==
  [i \in 1..Max(Len(el), index + 1) |-> IF i = index + 1 THEN val ELSE IF i <= Len(el) THEN el[i] ELSE [t |-> "hole"]]
\* SameValueZero normalisation of a Map key or Set item
ZeroNorm(v) == IF v.t = "flt" /\ v.f = "NegZero" THEN [t |-> "num", n |-> 0] ELSE v
MapSet(kv, key, val) ==
  IF \E i \in 1..Len(kv) : kv[i][1] = ZeroNorm(key)
  THEN [i \in 1..Len(kv) |-> IF kv[i][1] = ZeroNorm(key) THEN <<kv[i][1], val>> ELSE kv[i]]
  ELSE Append(kv, <<ZeroNorm(key), val>>)
SetAdd(el, item) == IF \E i \in 1..Len(el) : el[i] = ZeroNorm(item) THEN el ELSE Append(el, ZeroNorm(item))

\* function() { throw new Error('Function not serialized'); }
PlaceholderFn == [t |-> "fn", src |-> <<>>, name |-> <<>>, placeholder |-> TRUE]
\* whether a value is truthy
Truthy(v) ==
  CASE v.t \in {"null", "undef", "hole"} -> FALSE
    [] v.t = "bool" -> v.b
    [] v.t = "num" -> v.n # 0
    [] v.t = "flt" -> v.f \notin {"NaN", "NegZero"}
    [] v.t = "big" -> v.n # 0
    [] v.t = "str" -> v.s # <<>>
    [] OTHER -> TRUE
\* the stack a newly constructed Error has at the decode site ("Error")
GeneratedStack == <<69, 114, 114, 111, 114>>

readPrimitive(R, type) ==
  CASE type = TYPE_NULL -> Ret(R, Null)
    [] type = TYPE_UNDEFINED -> Ret(R, Undefined)
    [] type = TYPE_FALSE -> Ret(R, [t |-> "bool", b |-> FALSE])
    [] type = TYPE_TRUE -> Ret(R, [t |-> "bool", b |-> TRUE])
    [] OTHER -> Ret(Throw(R, "UnknownTag"), Undefined)

Num(n) == [t |-> "num", n |-> n]
Flt(f) == [t |-> "flt", f |-> f]
\* the Number a read integer becomes
NumOf(x) == Ret(x.r, Num(x.v))
\* a Uint32 of 2^31 or more is outside the model's integers
U32Of(x) == IF x.v < 0 THEN Ret(Throw(x.r, "OutOfModel"), Undefined) ELSE Ret(x.r, Num(x.v))
\* isNegative ? -value : value
SignedOf(value, y) ==
  IF Failed(y.r) THEN Ret(y.r, Undefined)
  ELSE IF y.v # 0 /\ value = 0 THEN Ret(y.r, Flt("NegZero"))
  ELSE Ret(y.r, Num(IF y.v # 0 THEN 0 - value ELSE value))
VarintSign(x) == SignedOf(x.v, readU8(x.r))
readNumber(R, type) ==
  CASE type = TYPE_INT8 ->
         \* view.getInt8(this.pos++): no ensureBytes, the DataView throws a RangeError
         (IF R.pos >= Len(R.buffer) THEN Ret(Throw([R EXCEPT !.pos = @ + 1], "RangeError"), Undefined)
          ELSE Ret([R EXCEPT !.pos = @ + 1], Num(FromLE(<<R.buffer[R.pos + 1]>>, 1))))
    [] type = TYPE_INT16 -> NumOf(readI16(R))
    [] type = TYPE_INT32 -> NumOf(readI32(R))
    [] type = TYPE_UINT32 -> U32Of(readU32(R))
    [] type = TYPE_FLOAT32 -> readF32(R)
    [] type = TYPE_FLOAT64 -> readF64(R)
    [] type = TYPE_NAN -> Ret(R, Flt("NaN"))
    [] type = TYPE_INFINITY -> Ret(R, Flt("Infinity"))
    [] type = TYPE_NEG_INFINITY -> Ret(R, Flt("NegInfinity"))
    [] type = TYPE_NEG_ZERO -> Ret(R, Flt("NegZero"))
    [] type = TYPE_VARINT -> VarintSign(readVarint(R))
    [] OTHER -> Ret(Throw(R, "UnknownTag"), Undefined)

BigOf(x) == Ret(x.r, [t |-> "big", n |-> x.v])
readBigInt(R, type) ==
  CASE type \in {TYPE_BIGINT_POS_SMALL, TYPE_BIGINT_NEG_SMALL} -> BigOf(readBigInt64(R))
    [] type \in {TYPE_BIGINT_POS_LARGE, TYPE_BIGINT_NEG_LARGE} -> Ret(Throw(R, "OutOfModel"), Undefined)
    [] OTHER -> Ret(Throw(R, "UnknownTag"), Undefined)

\* the table push at the end of readString
PushString(strings, str) == Append(strings, str)

\* the tags whose length is one byte, and the tags decoded as ASCII
ShortStringTags == {TYPE_STRING_ASCII_TINY, TYPE_STRING_ASCII_SHORT, TYPE_STRING_UTF8_TINY, TYPE_STRING_UTF8_SHORT}
AsciiStringTags == {TYPE_STRING_ASCII_TINY, TYPE_STRING_ASCII_SHORT, TYPE_STRING_ASCII_LONG}
\* the decoded text is returned and pushed on the string table
StringDone(E, length, str) ==
  Ret([E EXCEPT !.pos = @ + length, !.deserializeStrings = PushString(@, str)], Str(str))
StringDecode(E, length, type) ==
  IF Failed(E) THEN Ret(E, Undefined)
  ELSE StringDone(E, length, IF type \in AsciiStringTags THEN BytesAt(E, length) ELSE Utf8Decode(BytesAt(E, length)))
StringBytes(l, type) == StringDecode(IF Failed(l.r) THEN l.r ELSE ensureBytes(l.r, l.v), l.v, type)
readString(R, type) ==
  IF type = TYPE_STRING_EMPTY THEN Ret(R, Str(<<>>))
  ELSE IF type \in ShortStringTags THEN StringBytes(readU8(R), type)
  ELSE StringBytes(readVarint(R), type)

PackedElem(bs, type, elementSize) ==
  CASE type = TYPE_ARRAY_PACKED_F32 -> FloatOfF32(bs)
    [] type = TYPE_ARRAY_PACKED_F64 -> FloatOfF64(bs)
    [] OTHER -> Num(FromLE(bs, elementSize))
\* the elements of a packed block of raw bytes
PackedElems(raw, type, elementSize) ==
  [i \in 1..(Len(raw) \div elementSize) |->
     PackedElem(SubSeq(raw, (i - 1) * elementSize + 1, i * elementSize), type, elementSize)]
PackedLoad(E, length, type, elementSize) ==
  IF Failed(E) THEN Ret(E, <<>>)
  ELSE IF length > MaxArrayLen THEN Ret(Throw(E, "OutOfModel"), <<>>)
  ELSE Ret([E EXCEPT !.pos = @ + length * elementSize],
           PackedElems(BytesAt(E, length * elementSize), type, elementSize))
\* length * elementSize bytes are required; the product is kept in range when
\* the length exceeds the input anyway
PackedBlock(l, type, elementSize) ==
  PackedLoad(IF Failed(l.r) THEN l.r
             ELSE ensureBytes(readerAlignPos(l.r, Min(elementSize, 8)),
                              IF l.v > Len(l.r.buffer) THEN l.v ELSE l.v * elementSize),
             l.v, type, elementSize)
readPackedArrayData(R, type) == PackedBlock(readVarint(R), type, BYTES_PER_ELEMENT(type))

RECURSIVE readValue(_, _)
RECURSIVE fillDense(_, _, _, _)
RECURSIVE fillSparse(_, _, _, _)
RECURSIVE fillKeyValues(_, _, _, _)
RECURSIVE fillDescriptors(_, _, _, _)
RECURSIVE fillMethods(_, _, _, _)
RECURSIVE fillMap(_, _, _, _)
RECURSIVE fillSetItems(_, _, _, _)
RECURSIVE readErrors(_, _, _, _)

\* array[i] = <the value read>
DenseItem(x, id) ==
  IF Failed(x.r) THEN x.r ELSE [x.r EXCEPT !.heap[id].el = Append(@, x.v)]
\* for (i < length) array[i] = this.readValue(): the first half of the loop,
\* then the second half on the state the first leaves
fillDense(R, D, id, n) ==
  IF n = 0 \/ Failed(R) THEN R
  ELSE IF n = 1 THEN DenseItem(readValue(R, D), id)
  ELSE fillDense(fillDense(R, D, id, n \div 2), D, id, n - (n \div 2))
FillDenseArray(l, D, id) == fillDense(l.r, D, id, l.v)

\* array[index] = <the value read>
SparseItem(index, x, D, id, n) ==
  IF Failed(x.r) THEN x.r
  ELSE IF index >= MaxArrayLen THEN Throw(x.r, "OutOfModel")
  ELSE fillSparse([x.r EXCEPT !.heap[id].el = SetIndex(@, index, x.v)], D, id, n - 1)
SparseIndex(i, D, id, n) == SparseItem(i.v, readValue(i.r, D), D, id, n)
\* for (i < elementCount) { index = readVarint(); array[index] = readValue() }
fillSparse(R, D, id, n) ==
  IF n = 0 \/ Failed(R) THEN R ELSE SparseIndex(readVarint(R), D, id, n)
\* new Array(totalLength), then the elementCount entries
SparseCount(total, count, D, id) ==
  IF Failed(count.r) THEN count.r
  ELSE IF total > MaxArrayLen THEN Throw(count.r, "OutOfModel")
  ELSE fillSparse([count.r EXCEPT !.heap[id].el = [i \in 1..total |-> [t |-> "hole"]]], D, id, count.v)
SparseTotal(total, D, id) == SparseCount(total.v, readVarint(total.r), D, id)
\* array.push(...packed)
PackedItems(x, id) == IF Failed(x.r) THEN x.r ELSE [x.r EXCEPT !.heap[id].el = @ \o x.v]

PackedArrayTags == {TYPE_ARRAY_PACKED_I8, TYPE_ARRAY_PACKED_I16, TYPE_ARRAY_PACKED_I32,
                    TYPE_ARRAY_PACKED_F32, TYPE_ARRAY_PACKED_F64}
fillArray(R, D, id, type) ==
  CASE type = TYPE_ARRAY_EMPTY -> R
    [] type = TYPE_ARRAY_DENSE -> FillDenseArray(readVarint(R), D, id)
    [] type = TYPE_ARRAY_SPARSE -> SparseTotal(readVarint(R), D, id)
    [] type \in PackedArrayTags -> PackedItems(readPackedArrayData(R, type), id)
    [] OTHER -> R

\* obj[key] = <the value read>
KeyValueItem(key, x, D, id, n) ==
  IF Failed(x.r) THEN x.r
  ELSE IF ~CanKey(key) THEN Throw(x.r, "OutOfModel")
  ELSE fillKeyValues([x.r EXCEPT !.heap[id].kv = SetProp(@, KeyOf(key), x.v)], D, id, n - 1)
KeyValueKey(k, D, id, n) == KeyValueItem(k.v, readValue(k.r, D), D, id, n)
\* for (i < keyCount) { key = readValue(); obj[key] = readValue() }
fillKeyValues(R, D, id, n) ==
  IF n = 0 \/ Failed(R) THEN R ELSE KeyValueKey(readValue(R, D), D, id, n)

FillCounted(c, D, id) == fillKeyValues(c.r, D, id, c.v)
fillSimpleObject(R, D, id) == FillCounted(readVarint(R), D, id)

\* the data descriptor built from the flags byte
DescriptorOf(key, flags, val) ==
  [key |-> KeyOf(key), val |-> val, e |-> flags % 2 = 1, w |-> (flags \div 2) % 2 = 1,
   c |-> (flags \div 4) % 2 = 1]
\* Object.defineProperty(obj, key, descriptor)
DescriptorDefine(R, D, id, n, p) ==
  IF ~CanDefine(R.heap[id].kv, p) THEN Throw(R, "TypeError")
  ELSE fillDescriptors([R EXCEPT !.heap[id].kv = DefineProp(@, p)], D, id, n - 1)
DescriptorValue(key, flags, x, D, id, n) ==
  IF Failed(x.r) THEN x.r
  ELSE IF ~CanKey(key) THEN Throw(x.r, "OutOfModel")
  ELSE DescriptorDefine(x.r, D, id, n, DescriptorOf(key, flags, x.v))
\* a descriptor with an accessor and the writable attribute is rejected
AccessorDefine(x) == IF Failed(x.r) THEN x.r ELSE Throw(x.r, "TypeError")
\* if (hasSetter) descriptor.set = this.readValue()
AccessorSetter(g, hasSetter, D) ==
  AccessorDefine(IF hasSetter THEN readValue(g.r, D) ELSE g)
\* if (hasGetter) descriptor.get = this.readValue()
AccessorGetter(R, hasGetter, hasSetter, D) ==
  AccessorSetter(IF hasGetter THEN readValue(R, D) ELSE Ret(R, Undefined), hasSetter, D)
DescriptorKind(key, R, flags, D, id, n) ==
  IF Failed(R) THEN R
  ELSE IF (flags \div 8) % 2 = 1 \/ (flags \div 16) % 2 = 1
  THEN AccessorGetter(R, (flags \div 8) % 2 = 1, (flags \div 16) % 2 = 1, D)
  ELSE DescriptorValue(key, flags, readValue(R, D), D, id, n)
DescriptorByte(key, f, D, id, n) == DescriptorKind(key, f.r, f.v, D, id, n)
DescriptorKey(k, D, id, n) == DescriptorByte(k.v, readU8(k.r), D, id, n)
fillDescriptors(R, D, id, n) ==
  IF n = 0 \/ Failed(R) THEN R ELSE DescriptorKey(readValue(R, D), D, id, n)

FillCountedDescriptors(c, D, id) == fillDescriptors(c.r, D, id, c.v)
fillObjectWithDescriptors(R, D, id) == FillCountedDescriptors(readVarint(R), D, id)

\* the sources new Function('return ' + source)() turns into a function
IsFunctionSource(v) == v.t = "str" /\ Len(v.s) >= 4 /\ SubSeq(v.s, 1, 4) = <<40, 41, 61, 62>>

\* obj[key] = <the value read or rebuilt>
MethodItem(key, x, D, id, n) ==
  IF Failed(x.r) THEN x.r
  ELSE IF ~CanKey(key) THEN Throw(x.r, "OutOfModel")
  ELSE fillMethods([x.r EXCEPT !.heap[id].kv = SetProp(@, KeyOf(key), x.v)], D, id, n - 1)
\* new Function('return ' + functionSource)(), a placeholder when that throws
MethodRebuilt(key, source, nm, D, id, n) ==
  IF Failed(nm.r) THEN nm.r
  ELSE IF ~CanKey(key) THEN Throw(nm.r, "OutOfModel")
  ELSE IF source.t # "str" THEN Throw(nm.r, "OutOfModel")
  ELSE MethodItem(key, Ret(nm.r, IF IsFunctionSource(source)
                                 THEN [t |-> "fn", src |-> source.s, name |-> <<>>] ELSE PlaceholderFn),
                  D, id, n)
MethodSource(key, src, D, id, n) == MethodRebuilt(key, src.v, readValue(src.r, D), D, id, n)
\* without the placeholder marker the key is left unset
MethodPlaceholder(key, ph, D, id, n) ==
  IF Failed(ph.r) THEN ph.r
  ELSE IF ~CanKey(key) THEN Throw(ph.r, "OutOfModel")
  ELSE IF ph.v # TYPE_FUNCTION_PLACEHOLDER THEN fillMethods(ph.r, D, id, n - 1)
  ELSE MethodItem(key, Ret(ph.r, PlaceholderFn), D, id, n)
\* serializeFunctions of the reading instance decides how a function entry is read
MethodKind(key, f, D, id, n) ==
  IF Failed(f.r) THEN f.r
  ELSE IF f.v = 0 THEN MethodItem(key, readValue(f.r, D), D, id, n)
  ELSE IF D.serializeFunctions THEN MethodSource(key, readValue(f.r, D), D, id, n)
  ELSE MethodPlaceholder(key, readU8(f.r), D, id, n)
MethodKey(k, D, id, n) == MethodKind(k.v, readU8(k.r), D, id, n)
fillMethods(R, D, id, n) ==
  IF n = 0 \/ Failed(R) THEN R ELSE MethodKey(readValue(R, D), D, id, n)

FillCountedMethods(c, D, id) == fillMethods(c.r, D, id, c.v)
fillObjectWithMethods(R, D, id) == FillCountedMethods(readVarint(R), D, id)

\* "__constructorName"
ConstructorNameKey == <<95, 95, 99, 111, 110, 115, 116, 114, 117, 99, 116, 111, 114, 78, 97, 109, 101>>
\* Object.defineProperty(obj, '__constructorName', ...) after the key/value loop
ConstructorDefine(F, constructorName, id) ==
  IF Failed(F) THEN F
  ELSE [F EXCEPT !.heap[id].kv = DefineProp(@, [key |-> ConstructorNameKey, val |-> constructorName,
                                                 e |-> FALSE, w |-> FALSE, c |-> TRUE])]
ConstructorKeys(constructorName, c, D, id) ==
  ConstructorDefine(fillKeyValues(c.r, D, id, c.v), constructorName, id)
ConstructorCount(nm, D, id) == ConstructorKeys(nm.v, readVarint(nm.r), D, id)
fillConstructorObject(R, D, id) == ConstructorCount(readValue(R, D), D, id)

fillObject(R, D, id, type) ==
  CASE type = TYPE_OBJECT_EMPTY -> R
    [] type \in {TYPE_OBJECT_LITERAL, TYPE_OBJECT_PLAIN} -> fillSimpleObject(R, D, id)
    [] type = TYPE_OBJECT_WITH_DESCRIPTORS -> fillObjectWithDescriptors(R, D, id)
    [] type = TYPE_OBJECT_WITH_METHODS -> fillObjectWithMethods(R, D, id)
    [] type = TYPE_OBJECT_CONSTRUCTOR -> fillConstructorObject(R, D, id)
    [] OTHER -> R

\* map.set(key, <the value read>)
MapItem(key, x, D, id, n) ==
  IF Failed(x.r) THEN x.r
  ELSE fillMap([x.r EXCEPT !.heap[id].kv = MapSet(@, key, x.v)], D, id, n - 1)
MapKey(k, D, id, n) == MapItem(k.v, readValue(k.r, D), D, id, n)
fillMap(R, D, id, n) ==
  IF n = 0 \/ Failed(R) THEN R ELSE MapKey(readValue(R, D), D, id, n)
\* set.add(<the value read>)
SetItem(x, D, id, n) ==
  IF Failed(x.r) THEN x.r
  ELSE fillSetItems([x.r EXCEPT !.heap[id].el = SetAdd(@, x.v)], D, id, n - 1)
fillSetItems(R, D, id, n) ==
  IF n = 0 \/ Failed(R) THEN R ELSE SetItem(readValue(R, D), D, id, n)
CollectionItems(size, D, id, type) ==
  CASE type = TYPE_MAP -> fillMap(size.r, D, id, size.v)
    [] type = TYPE_SET -> fillSetItems(size.r, D, id, size.v)
    [] OTHER -> size.r
\* id = 0 when the subtype is neither MAP nor SET and no collection was created
fillCollection(R, D, id, type) == CollectionItems(readVarint(R), D, id, type)

ErrorsItem(x, D, n, acc) == readErrors(x.r, D, n - 1, Append(acc, x.v))
\* errors.push(this.readValue()), n times; acc collects the values
readErrors(R, D, n, acc) ==
  IF n = 0 \/ Failed(R) THEN Ret(R, acc) ELSE ErrorsItem(readValue(R, D), D, n, acc)

ErrorTags == {TYPE_ERROR, 161, 162, 163, 164, 165, 166}
\* new ErrorClass(message), then error.stack = stack when a stack was written
ErrorNode(type, message, stack, errors) ==
  [k |-> "err",
   type |-> IF type \in ErrorTags \cup {TYPE_AGGREGATE_ERROR} THEN type ELSE TYPE_ERROR,
   msg |-> IF message.t = "str" THEN message.s ELSE <<>>,
   stack |-> IF Truthy(stack) /\ stack.t = "str" THEN stack.s ELSE GeneratedStack,
   errors |-> errors]
ErrorAlloc(R, node) == Ret(Alloc(R, node), Ref(NewId(R)))
ErrorBuild(type, message, stack, errs) ==
  IF Failed(errs.r) THEN Ret(errs.r, Undefined)
  ELSE IF message.t # "str" \/ (Truthy(stack) /\ stack.t # "str") THEN Ret(Throw(errs.r, "OutOfModel"), Undefined)
  ELSE ErrorAlloc(errs.r, ErrorNode(type, message, stack, errs.v))
ErrorList(cnt, D) == readErrors(cnt.r, D, cnt.v, <<>>)
ErrorErrors(type, message, stack, D) ==
  ErrorBuild(type, message, stack.v,
             IF type = TYPE_AGGREGATE_ERROR THEN ErrorList(readVarint(stack.r), D) ELSE Ret(stack.r, <<>>))
ErrorStack(type, message, D) == ErrorErrors(type, message.v, readValue(message.r, D), D)
readError(R, D, type) == ErrorStack(type, readValue(R, D), D)

\* the keys of the constructorMap of createTypedArray
TypedArrayTags ==
  {TYPE_UINT8ARRAY, TYPE_INT8ARRAY, TYPE_UINT8CLAMPEDARRAY, TYPE_UINT16ARRAY, TYPE_INT16ARRAY,
   TYPE_UINT32ARRAY, TYPE_INT32ARRAY, TYPE_FLOAT32ARRAY, TYPE_FLOAT64ARRAY, TYPE_BIGINT64ARRAY,
   TYPE_BIGUINT64ARRAY, TYPE_DATAVIEW}
\* new Constructor(buffer, byteOffset, length) throws a RangeError for a view
\* that is misaligned or does not fit the buffer
createTypedArray(R, type, buf, byteOffset, length) ==
  IF type \notin TypedArrayTags THEN Ret(Throw(R, "UnknownTag"), Undefined)
  ELSE IF byteOffset % ElementSize(type) # 0
          \/ byteOffset + length * ElementSize(type) > Len(R.heap[buf].bytes)
  THEN Ret(Throw(R, "RangeError"), Undefined)
  ELSE Ret(Alloc(R, Typed(type, buf, byteOffset, length)), Ref(NewId(R)))

\* the shared branch: bufferId, byteOffset and length, then the lookup
SharedLength(n, bufferId, byteOffset, type) ==
  IF Failed(n.r) THEN Ret(n.r, Undefined)
  ELSE IF bufferId >= Len(n.r.deserializeBuffers) THEN Ret(Throw(n.r, "InvalidReference"), Undefined)
  ELSE createTypedArray(n.r, type, n.r.deserializeBuffers[bufferId + 1], byteOffset, n.v)
SharedByteOffset(o, bufferId, type) ==
  IF Failed(o.r) THEN Ret(o.r, Undefined) ELSE SharedLength(readVarint(o.r), bufferId, o.v, type)
SharedBufferId(b, type) ==
  IF Failed(b.r) THEN Ret(b.r, Undefined) ELSE SharedByteOffset(readVarint(b.r), b.v, type)

RECURSIVE readBigIntElements(_, _, _)
RECURSIVE BigIntElement(_, _, _)
\* for (i < length) values.push(readBigInt64())
readBigIntElements(R, n, values) ==
  IF n = 0 THEN Ret(R, values) ELSE BigIntElement(ReadScalar(R, 8), n, values)
BigIntElement(x, n, values) ==
  IF Failed(x.r) THEN Ret(x.r, values) ELSE readBigIntElements(x.r, n - 1, values \o x.v)
\* new Constructor(values): a typed array over a buffer of its own
BigIntArray(x, type) ==
  IF Failed(x.r) THEN Ret(x.r, Undefined)
  ELSE Ret(Alloc(Alloc(x.r, Buffer(x.v)), Typed(type, NewId(x.r), 0, Len(x.v) \div 8)),
           Ref(NewId(x.r) + 1))
\* the copy into alignedBuffer, its push on deserializeBuffers, and the view
OwnBlock(E, type, length, totalBytes) ==
  IF Failed(E) THEN Ret(E, Undefined)
  ELSE createTypedArray([Alloc(E, Buffer(BytesAt(E, totalBytes)))
                           EXCEPT !.pos = @ + totalBytes,
                                  !.deserializeBuffers = Append(@, NewId(E))],
                        type, NewId(E), 0, length)
OwnLength(n, type) ==
  IF Failed(n.r) THEN Ret(n.r, Undefined)
  ELSE IF type \in {TYPE_BIGINT64ARRAY, TYPE_BIGUINT64ARRAY}
  THEN BigIntArray(readBigIntElements(readerAlignPos(n.r, 8), n.v, <<>>), type)
  ELSE OwnBlock(ensureBytes(readerAlignPos(n.r, ElementSize(type)), n.v * ElementSize(type)),
                type, n.v, n.v * ElementSize(type))
\* the byteOffset the writer stored is read and not used
OwnByteOffset(o, type) ==
  IF Failed(o.r) THEN Ret(o.r, Undefined) ELSE OwnLength(readVarint(o.r), type)
SharedFlag(f, type) ==
  IF Failed(f.r) THEN Ret(f.r, Undefined)
  ELSE IF f.v # 0 THEN SharedBufferId(readVarint(f.r), type)
  ELSE OwnByteOffset(readVarint(f.r), type)
readTypedArray(R, type) == SharedFlag(readU8(R), type)

\* data.buffer.slice(...): a new ArrayBuffer with the length bytes at the
\* cursor, pushed on deserializeBuffers; the subtype is not looked at
BufferBlock(E, length) ==
  IF Failed(E) THEN Ret(E, Undefined)
  ELSE Ret([Alloc(E, Buffer(BytesAt(E, length)))
              EXCEPT !.pos = @ + length, !.deserializeBuffers = Append(@, NewId(E))],
           Ref(NewId(E)))
BufferLength(n) ==
  IF Failed(n.r) THEN Ret(n.r, Undefined) ELSE BufferBlock(ensureBytes(n.r, n.v), n.v)
readArrayBuffer(R, type) == BufferLength(readVarint(R))

readExtension(R, type) ==
  IF type = TYPE_FUNCTION_PLACEHOLDER THEN Ret(R, PlaceholderFn) ELSE Ret(Throw(R, "UnknownTag"), Undefined)

\* the groups of the taxonomy whose reader the model does not contain
UnmodelledGroups == {144, 176, 192, 224}

\* deserializeRefs.push(value)
PushRef(refs, value) == Append(refs, value)

\* a lookup without the range check: table[id] is undefined beyond the table
ResolveRefUnchecked(id) ==
  IF Failed(id.r) THEN Ret(id.r, Undefined)
  ELSE IF id.v >= Len(id.r.deserializeRefs) THEN Ret(id.r, Undefined)
  ELSE Ret(id.r, id.r.deserializeRefs[id.v + 1])
\* deserializeRefs[id], deserializeStrings[id], deserializeBuffers[id]
ResolveRef(id) ==
  IF Failed(id.r) THEN Ret(id.r, Undefined)
  ELSE IF id.v >= Len(id.r.deserializeRefs) THEN Ret(Throw(id.r, "InvalidReference"), Undefined)
  ELSE Ret(id.r, id.r.deserializeRefs[id.v + 1])
ResolveString(id) ==
  IF Failed(id.r) THEN Ret(id.r, Undefined)
  ELSE IF id.v >= Len(id.r.deserializeStrings) THEN Ret(Throw(id.r, "InvalidReference"), Undefined)
  ELSE Ret(id.r, Str(id.r.deserializeStrings[id.v + 1]))

ResolveBuffer(id) ==
  IF Failed(id.r) THEN Ret(id.r, Undefined)
  ELSE IF id.v >= Len(id.r.deserializeBuffers) THEN Ret(Throw(id.r, "InvalidReference"), Undefined)
  ELSE Ret(id.r, Ref(id.r.deserializeBuffers[id.v + 1]))

\* the empty container created before its contents are read
Shell(type, group) ==
  CASE group = TYPE_GROUP_ARRAY -> [k |-> "arr", el |-> <<>>]
    [] group = TYPE_GROUP_OBJECT -> [k |-> "obj", proto |-> "Object", kv |-> <<>>]
    [] type = TYPE_MAP -> [k |-> "map", kv |-> <<>>]
    [] type = TYPE_SET -> [k |-> "set", el |-> <<>>]
    [] OTHER -> [k |-> "none"]
FillByGroup(S, D, nid, type, group) ==
  CASE group = TYPE_GROUP_ARRAY -> fillArray(S, D, nid, type)
    [] group = TYPE_GROUP_OBJECT -> fillObject(S, D, nid, type)
    [] OTHER -> fillCollection(S, D, nid, type)
\* needsEarlyRegistration: the shell is pushed on the table before it is filled
EarlyRegistration(R, D, type, group, shell, nid) ==
  Ret(FillByGroup(IF shell.k = "none" THEN R
                  ELSE [Alloc(R, shell) EXCEPT !.deserializeRefs = PushRef(@, Ref(nid))],
                  D, nid, type, group),
      IF shell.k = "none" THEN Undefined ELSE Ref(nid))
ReadByGroup(R, D, type, group) ==
  CASE group = TYPE_GROUP_PRIMITIVE -> readPrimitive(R, type)
    [] group = TYPE_GROUP_NUMBER -> readNumber(R, type)
    [] group = TYPE_GROUP_BIGINT -> readBigInt(R, type)
    [] group = TYPE_GROUP_STRING -> readString(R, type)
    [] group = TYPE_GROUP_TYPED -> readTypedArray(R, type)
    [] group = TYPE_GROUP_BUFFER -> readArrayBuffer(R, type)
    [] group = TYPE_GROUP_ERROR -> readError(R, D, type)
    [] group = TYPE_GROUP_EXTENSION -> readExtension(R, type)
    [] group \in UnmodelledGroups -> Ret(Throw(R, "OutOfModel"), Undefined)
    [] OTHER -> Ret(Throw(R, "UnknownTag"), Undefined)
\* Store reference: an object built late is pushed once it is complete
LateRegistration(x) ==
  IF Failed(x.r) THEN x
  ELSE IF x.v.t = "ref" THEN Ret([x.r EXCEPT !.deserializeRefs = PushRef(@, x.v)], x.v)
  ELSE x
ReadTagged(R, D, type, group) ==
  IF type \in {TYPE_REFERENCE, TYPE_CIRCULAR_REF} THEN ResolveRef(readVarint(R))
  ELSE IF type = TYPE_STRING_REF THEN ResolveString(readVarint(R))
  ELSE IF type = TYPE_BUFFER_REF THEN ResolveBuffer(readVarint(R))
  ELSE IF group \in {TYPE_GROUP_OBJECT, TYPE_GROUP_ARRAY, TYPE_GROUP_COLLECTION}
  THEN EarlyRegistration(R, D, type, group, Shell(type, group), NewId(R))
  ELSE LateRegistration(ReadByGroup(R, D, type, group))
ReadTag(t, D) == ReadTagged(t.r, D, t.v, GroupOf(t.v))
readValue(R, D) ==
  IF Failed(R) THEN Ret(R, Undefined)
  ELSE IF R.pos >= Len(R.buffer) THEN Ret(Throw(R, "UnexpectedEnd"), Undefined)
  ELSE ReadTag(readU8(R), D)

\* a deserialize call that keeps the tables of the call before
KeptTables(R) == R
\* the three tables a deserialize call starts with
FreshTables(R) == [R EXCEPT !.deserializeRefs = <<>>, !.deserializeStrings = <<>>, !.deserializeBuffers = <<>>]

\* a version check that accepts every version
CheckVersionOmitted(version, D) ==
  IF Failed(version.r) THEN Ret(version.r, Undefined) ELSE readValue(version.r, D)
CheckVersion(version, D) ==
  IF Failed(version.r) THEN Ret(version.r, Undefined)
  ELSE IF version.v # 5 THEN Ret(Throw(version.r, "UnsupportedFormat"), Undefined)
  ELSE readValue(version.r, D)
CheckMagic(magic, D) ==
  IF Failed(magic.r) THEN Ret(magic.r, Undefined)
  ELSE IF magic.v # MAGIC THEN Ret(Throw(magic.r, "InvalidMagic"), Undefined)
  ELSE CheckVersion(readU8(magic.r), D)
\* deserialize(buffer) on an instance whose reader state is R0, with options D
deserialize(R0, D, bytes) ==
  CheckMagic(readU32([FreshTables(R0) EXCEPT !.buffer = bytes, !.pos = 0, !.err = "none"]), D)

(***************************************************************************)
(* Semantic equivalence of value graphs.  Canon numbers the objects        *)
(* reachable from a root in the order a depth-first walk first meets them  *)
(* (the properties of a plain object in key order) and rewrites every      *)
(* reference to that number: two rooted graphs are equivalent, identities  *)
(* of shared and cyclic nodes included, iff their canonical forms are      *)
(* equal.                                                                  *)
(***************************************************************************)
RECURSIVE SortProps(_)
RECURSIVE InsertProp(_, _)
InsertProp(sorted, p) ==
  IF sorted = <<>> THEN <<p>>
  ELSE IF StrLess(p.key, Head(sorted).key) THEN <<p>> \o sorted
  ELSE <<Head(sorted)>> \o InsertProp(Tail(sorted), p)
SortProps(kv) == IF kv = <<>> THEN <<>> ELSE InsertProp(SortProps(Tail(kv)), Head(kv))

CanonChildren(node) ==
  CASE node.k = "arr" -> node.el
    [] node.k = "obj" -> LET sp == SortProps(node.kv) IN [i \in 1..Len(sp) |-> sp[i].val]
    [] node.k = "map" -> Flatten(node.kv)
    [] node.k = "set" -> node.el
    [] node.k = "err" -> node.errors
    [] node.k = "typed" -> <<Ref(node.buf)>>
    [] OTHER -> <<>>

RECURSIVE Visit(_, _, _)
RECURSIVE VisitSeq(_, _, _)
Visit(heap, v, order) ==
  IF v.t # "ref" \/ v.id \in Range(order) THEN order
  ELSE VisitSeq(heap, SelectSeq(CanonChildren(heap[v.id]), LAMBDA c : c.t = "ref"), Append(order, v.id))
VisitSeq(heap, vals, order) ==
  IF vals = <<>> THEN order ELSE VisitSeq(heap, Tail(vals), Visit(heap, Head(vals), order))

\* a function is compared by its source text
CanonVal(v, order) ==
  IF v.t = "ref" THEN Ref(IndexOf(order, v.id))
  ELSE IF v.t = "fn" THEN [t |-> "fn", src |-> v.src]
  ELSE v
\* a typed array is compared by its type and its elements, a buffer by identity
CanonNode(heap, node, order) ==
  CASE node.k = "arr" -> [node EXCEPT !.el = [i \in 1..Len(node.el) |-> CanonVal(node.el[i], order)]]
    [] node.k = "set" -> [node EXCEPT !.el = [i \in 1..Len(node.el) |-> CanonVal(node.el[i], order)]]
    [] node.k = "map" -> [node EXCEPT !.kv = [i \in 1..Len(node.kv) |->
                             <<CanonVal(node.kv[i][1], order), CanonVal(node.kv[i][2], order)>>]]
    [] node.k = "obj" -> LET sp == SortProps(node.kv) IN
                         [node EXCEPT !.kv = [i \in 1..Len(sp) |-> [sp[i] EXCEPT !.val = CanonVal(sp[i].val, order)]]]
    [] node.k = "err" -> [node EXCEPT !.errors = [i \in 1..Len(node.errors) |-> CanonVal(node.errors[i], order)]]
    [] node.k = "typed" -> [k |-> "typed", type |-> node.type, length |-> node.length,
                            data |-> TypedBytes(heap, node), buf |-> CanonVal(Ref(node.buf), order)]
    [] node.k = "buffer" -> [k |-> "buffer"]
CanonIn(heap, root, order) ==
  [root |-> CanonVal(root, order), nodes |-> [i \in 1..Len(order) |-> CanonNode(heap, heap[order[i]], order)]]
Canon(heap, root) == CanonIn(heap, root, Visit(heap, root, <<>>))
\* the objects reachable from a root
Reach(heap, root) == Range(Visit(heap, root, <<>>))

(***************************************************************************)
(* Options                                                                 *)
(***************************************************************************)
\* how many options an instance of the model sets away from their defaults
MaxFlips == 1
Flags == {"deduplication", "shareArrayBuffers", "simdOptimization", "detectCircular",
          "serializeFunctions", "preservePropertyDescriptors"}
DefaultOptions ==
  [deduplication |-> TRUE, shareArrayBuffers |-> TRUE, simdOptimization |-> TRUE, detectCircular |-> TRUE,
   serializeFunctions |-> FALSE, preservePropertyDescriptors |-> TRUE, memoryPoolSize |-> 65536]
\* new TurboSerial(options) with the flags of flips set to the opposite of the default
OptionsWith(flips) ==
  [deduplication |-> ~("deduplication" \in flips), shareArrayBuffers |-> ~("shareArrayBuffers" \in flips),
   simdOptimization |-> ~("simdOptimization" \in flips), detectCircular |-> ~("detectCircular" \in flips),
   serializeFunctions |-> ("serializeFunctions" \in flips),
   preservePropertyDescriptors |-> ~("preservePropertyDescriptors" \in flips),
   memoryPoolSize |-> 65536]
OptionSpace == {OptionsWith(f) : f \in {g \in SUBSET Flags : Cardinality(g) <= MaxFlips}}

(***************************************************************************)
(* The values the application passes to serialize.  A value is a heap with *)
(* a root: [heap |-> nodes, root |-> value].                               *)
(***************************************************************************)
\* the longest array, and the most entries of a map or set, that the generated values have
MaxLen == 2

True == [t |-> "bool", b |-> TRUE]
False == [t |-> "bool", b |-> FALSE]
Big(n) == [t |-> "big", n |-> n]
Hole == [t |-> "hole"]
Fn(src, name) == [t |-> "fn", src |-> src, name |-> name]
Arr(el) == [k |-> "arr", el |-> el]
Obj(kv) == [k |-> "obj", proto |-> "Object", kv |-> kv]
MapOf(kv) == [k |-> "map", kv |-> kv]
SetOf(el) == [k |-> "set", el |-> el]
Err(type, msg, stack, errors) == [k |-> "err", type |-> type, msg |-> msg, stack |-> stack, errors |-> errors]
Value(heap, root) == [heap |-> heap, root |-> root]
Atom(v) == Value(<<>>, v)
One(node) == Value(<<node>>, Ref(1))

sA == <<97>>
sB == <<98>>
sHi == <<104, 105>>
sHello == <<104, 101, 108, 108, 111>>
sWorld == <<119, 111, 114, 108, 100>>
sCafe == <<99, 97, 102, 233>>
sSelf == <<115, 101, 108, 102>>
sSixteen == <<97, 98, 99, 100, 101, 102, 103, 104, 105, 106, 107, 108, 109, 110, 111, 112>>
sArrow == <<40, 41, 61, 62, 49>>
sStack == <<69, 114, 114, 111, 114, 58, 32, 104, 105>>

Atoms ==
  {Null, Undefined, True, False,
   Num(0), Num(1), Num(0 - 1), Num(127), Num(128), Num(0 - 129), Num(1000), Num(40000),
   Num(INT32_MAX), Num(0 - INT32_MAX),
   Flt("half"), Flt("tenth"), Flt("NaN"), Flt("Infinity"), Flt("NegInfinity"), Flt("NegZero"),
   Big(5), Big(0 - 5),
   Str(<<>>), Str(sA), Str(sHi), Str(sHello), Str(sCafe), Str(sSixteen)}

\* the elements of the generated containers
Elems == {Num(1), Str(sHi), Str(sHello)}
SeqsUpTo(S, n) == UNION {[1..k -> S] : k \in 1..n}
Distinct(s) == \A i, j \in 1..Len(s) : s[i] = s[j] => i = j
Arrays == {One(Arr(el)) : el \in SeqsUpTo(Elems, MaxLen)}
Sets == {One(SetOf(el)) : el \in {e \in SeqsUpTo(Elems, MaxLen) : Distinct(e)}}
Maps == {One(MapOf(kv)) : kv \in {m \in SeqsUpTo(Elems \X Elems, MaxLen) :
                                     Distinct([i \in 1..Len(m) |-> m[i][1]])}}
\* the plain objects over the keys "a" and "b", in both insertion orders
Objects ==
  {One(Obj(<<P(sA, x)>>)) : x \in Elems} \cup {One(Obj(<<P(sB, x)>>)) : x \in Elems}
    \cup {One(Obj(<<P(sA, x[1]), P(sB, x[2])>>)) : x \in Elems \X Elems}
    \cup {One(Obj(<<P(sB, x[2]), P(sA, x[1])>>)) : x \in Elems \X Elems}

Eight(a, b) == One(Arr(<<Num(a), Num(2), Num(3), Num(4), Num(5), Num(6), Num(7), b>>))
sF == <<102>>
sFoo == <<70, 111, 111>>
\* values built by hand: shared nodes, cycles, sparse and packed arrays, errors, objects that are not plain literals
Graphs ==
  { \* x = {a: 1}; [x, x]
    Value(<<Arr(<<Ref(2), Ref(2)>>), Obj(<<P(sA, Num(1))>>)>>, Ref(1)),
    \* x = [1]; {a: x, b: x}
    Value(<<Obj(<<P(sA, Ref(2)), P(sB, Ref(2))>>), Arr(<<Num(1)>>)>>, Ref(1)),
    \* x = {}; [x, x]
    Value(<<Arr(<<Ref(2), Ref(2)>>), Obj(<<>>)>>, Ref(1)),
    \* m = new Map([[1, 1]]); s = new Set([1]); [m, s, m, s]
    Value(<<Arr(<<Ref(2), Ref(3), Ref(2), Ref(3)>>), MapOf(<< <<Num(1), Num(1)>> >>), SetOf(<<Num(1)>>)>>, Ref(1)),
    \* e = new Error("hi"); [e, e]
    Value(<<Arr(<<Ref(2), Ref(2)>>), Err(TYPE_ERROR, sHi, sStack, <<>>)>>, Ref(1)),
    \* g = new AggregateError([new Error("a")], "hi"); [g, g]
    Value(<<Arr(<<Ref(2), Ref(2)>>), Err(TYPE_AGGREGATE_ERROR, sHi, sStack, <<Ref(3)>>),
            Err(TYPE_ERROR, sA, sWorld, <<>>)>>, Ref(1)),
    \* V = {}; V.self = V
    Value(<<Obj(<<P(sSelf, Ref(1))>>)>>, Ref(1)),
    \* c = {}; c.self = c; [c]
    Value(<<Arr(<<Ref(2)>>), Obj(<<P(sSelf, Ref(2))>>)>>, Ref(1)),
    \* c = {}; c.self = c; [c, c]
    Value(<<Arr(<<Ref(2), Ref(2)>>), Obj(<<P(sSelf, Ref(2))>>)>>, Ref(1)),
    \* p = {}; q = {b: p}; p.a = q
    Value(<<Obj(<<P(sA, Ref(2))>>), Obj(<<P(sB, Ref(1))>>)>>, Ref(1)),
    \* m = new Map(); m.set(1, m)
    Value(<<MapOf(<< <<Num(1), Ref(1)>> >>)>>, Ref(1)),
    \* s = new Set(); s.add(s)
    Value(<<SetOf(<<Ref(1)>>)>>, Ref(1)),
    \* a = []; a[0] = a
    Value(<<Arr(<<Ref(1)>>)>>, Ref(1)),
    \* [[1], [{a: "hi"}]]
    Value(<<Arr(<<Ref(2), Ref(3)>>), Arr(<<Num(1)>>), Arr(<<Ref(4)>>), Obj(<<P(sA, Str(sHi))>>)>>, Ref(1)),
    \* ["hi", "hello", "hello"]
    One(Arr(<<Str(sHi), Str(sHello), Str(sHello)>>)),
    One(Arr(<<>>)), One(Obj(<<>>)), One(MapOf(<<>>)), One(SetOf(<<>>)),
    \* [1, , 2], [ , ], [ , , , 1]
    One(Arr(<<Num(1), Hole, Num(2)>>)), One(Arr(<<Hole>>)), One(Arr(<<Hole, Hole, Hole, Num(1)>>)),
    \* arrays of eight numbers
    Eight(1, Num(8)), Eight(1, Num(1000)), Eight(1, Num(40000)), Eight(0 - 1, Num(0 - 1000)),
    Eight(1, Flt("half")), Eight(1, Flt("tenth")), Eight(1, Str(sHi)),
    \* new Uint8Array([1, 2, 3]), new Int16Array([1, 2]), new Float64Array([1]), new BigInt64Array([5n])
    Value(<<Buffer(<<1, 2, 3>>), Typed(TYPE_UINT8ARRAY, 1, 0, 3)>>, Ref(2)),
    Value(<<Buffer(<<1, 0, 2, 0>>), Typed(TYPE_INT16ARRAY, 1, 0, 2)>>, Ref(2)),
    Value(<<Buffer(<<0, 0, 0, 0, 0, 0, 240, 63>>), Typed(TYPE_FLOAT64ARRAY, 1, 0, 1)>>, Ref(2)),
    Value(<<Buffer(<<5, 0, 0, 0, 0, 0, 0, 0>>), Typed(TYPE_BIGINT64ARRAY, 1, 0, 1)>>, Ref(2)),
    \* t = new Int32Array([1]); [t, t]
    Value(<<Arr(<<Ref(3), Ref(3)>>), Buffer(<<1, 0, 0, 0>>), Typed(TYPE_INT32ARRAY, 2, 0, 1)>>, Ref(1)),
    \* b = new ArrayBuffer(4); [new Uint8Array(b, 0, 2), new Uint8Array(b, 2, 2)]
    Value(<<Arr(<<Ref(3), Ref(4)>>), Buffer(<<1, 2, 3, 4>>), Typed(TYPE_UINT8ARRAY, 2, 0, 2),
            Typed(TYPE_UINT8ARRAY, 2, 2, 2)>>, Ref(1)),
    \* {f: () => 1} and {a: 1, f: () => 1}
    One(Obj(<<P(sF, Fn(sArrow, sF))>>)), One(Obj(<<P(sA, Num(1)), P(sF, Fn(sArrow, sF))>>)),
    \* Object.defineProperty({}, "a", {value: 1, enumerable: false, writable: true, configurable: true})
    One(Obj(<<[key |-> sA, val |-> Num(1), e |-> FALSE, w |-> TRUE, c |-> TRUE]>>)),
    \* new Foo() with this.a = 1
    One([k |-> "obj", proto |-> "Foo", ctor |-> sFoo, kv |-> <<P(sA, Num(1))>>]) }

Inputs == {Atom(v) : v \in Atoms} \cup Arrays \cup Sets \cup Maps \cup Objects \cup Graphs
\* {b: 1, a: 2} and {a: 2, b: 1}
ObjBA == One(Obj(<<P(sB, Num(1)), P(sA, Num(2))>>))
ObjAB == One(Obj(<<P(sA, Num(2)), P(sB, Num(1))>>))
\* the values passed to an instance that is used for several calls
ReuseInputs ==
  {Atom(Num(1)), Atom(Str(sHello)), Atom(Str(sSixteen)), ObjBA, ObjAB, Eight(1, Flt("tenth")),
   One(Arr(<<Str(sHello), Str(sA)>>))}

(***************************************************************************)
(* The state machine: an application holds one codec instance, built with  *)
(* options, and a second instance, the peer, built with peerOptions; it    *)
(* serializes values on the first, keeps the byte sequences returned, and  *)
(* deserializes them on either.                                            *)
(*   writer     the instance's pool and writer tables                      *)
(*   reader, peerReader   buffer, pos and the three reader tables          *)
(*   heap       the objects the decodes have created                       *)
(*   values     the values the application serializes                      *)
(*   budget     the serialize calls the application still makes            *)
(*   input      the value of the last serialize call                       *)
(*   thrown     the exception of the last serialize call, or "none"        *)
(*   returned   the results of the serialize calls in order: the view      *)
(*              (buffer identity buf and length len), the value it was     *)
(*              made from, snap, the bytes of the view at the return, and  *)
(*              pad and log, the offsets the call skipped for alignment    *)
(*              and the aligned blocks it wrote                            *)
(*   received   the byte sequences the application holds that no call of   *)
(*              the instance returned                                      *)
(*   decoded    the deserialize calls in order: who made it, the returned  *)
(*              sequence h it was given (0 for a received one), the bytes  *)
(*              read, the exception err, the result root, the position pos *)
(*              the reader stopped at, and the range base+1..top of the    *)
(*              objects it created                                         *)
(***************************************************************************)
VARIABLES options, peerOptions, writer, reader, peerReader, heap, values, budget, input, thrown,
          returned, received, decoded
vars == <<options, peerOptions, writer, reader, peerReader, heap, values, budget, input, thrown,
          returned, received, decoded>>

\* new TurboSerial(O): the writer half
NewWriter(O) ==
  [u8 |-> <<>>, size |-> CacheAlign(O.memoryPoolSize), pos |-> 0, bufId |-> 1, graves |-> <<>>,
   refs |-> <<>>, circ |-> {}, strings |-> <<>>, buffers |-> <<>>,
   log |-> {}, pad |-> {}, depth |-> 0, err |-> "none"]
\* the reader half before the first deserialize
NewReader ==
  [buffer |-> <<>>, pos |-> 0, deserializeRefs |-> <<>>, deserializeStrings |-> <<>>,
   deserializeBuffers |-> <<>>, err |-> "none"]
NoValue == Value(<<>>, [t |-> "none"])

(***************************************************************************)
(* Byte sequences that no serialize call of the instance returned.         *)
(***************************************************************************)
Bytes(W) == Prefix(W.u8, W.pos)
\* the magic, little-endian, and the version
Header == LEBytes(MAGIC, 4) \o <<5>>
\* what a new default-configured instance returns for v
Encoding(v) == Bytes(serialize(NewWriter(DefaultOptions), v.heap, DefaultOptions, v.root))
\* [1, "hello"]
SampleBytes == Encoding(One(Arr(<<Num(1), Str(sHello)>>)))
\* the sample with one byte of the magic changed, and with the magic big-endian
WrongMagic ==
  {[SampleBytes EXCEPT ![i] = x] : i \in 1..4, x \in {0, 255}}
    \cup {<<84, 66, 82, 53, 5, TYPE_NULL>>, <<53, 82, 66, 85>>}
\* the sample with another version byte
WrongVersion == {[SampleBytes EXCEPT ![5] = x] : x \in {0, 4, 6, 255}}
\* the tags of the TYPE table
TagTable ==
  (0..3) \cup (16..26) \cup (32..35) \cup (48..55) \cup (64..71) \cup (80..85) \cup (96..107)
    \cup (112..114) \cup {128, 129, 144, 145} \cup (160..168) \cup {176, 192, 193, 208, 209}
    \cup (224..227) \cup {240}
\* one unassigned subtype of the PRIMITIVE, NUMBER, ARRAY, OBJECT, COLLECTION,
\* ERROR, REFERENCE and EXTENSION groups
UnassignedTags == {15, 31, 72, 95, 143, 175, 210, 255} \ TagTable
\* what follows the tag: a zero count for the collection, an empty message and
\* an empty stack for the error
AfterTag(tag) ==
  CASE tag = 143 -> <<0>>
    [] tag = 175 -> <<TYPE_STRING_EMPTY, TYPE_STRING_EMPTY>>
    [] OTHER -> <<>>
\* an unassigned tag as the root value, and as the one element of a dense array
UnknownTagged ==
  {<<53, 82, 66, 84, 5, tag>> \o AfterTag(tag) : tag \in UnassignedTags}
    \cup {<<53, 82, 66, 84, 5, TYPE_ARRAY_DENSE, 1, tag>> \o AfterTag(tag) : tag \in UnassignedTags}
\* records whose id is the size of its table or more: each kind of record
\* with an empty table, with a table of one or two entries, and a five-byte id
DanglingIds ==
  {Header \o tail : tail \in
     {<<TYPE_REFERENCE, 0>>, <<TYPE_CIRCULAR_REF, 0>>, <<TYPE_STRING_REF, 0>>, <<TYPE_BUFFER_REF, 0>>,
      <<TYPE_UINT8ARRAY, 1, 0, 0, 0>>,
      <<TYPE_ARRAY_DENSE, 2, TYPE_ARRAY_EMPTY, TYPE_REFERENCE, 2>>,
      <<TYPE_ARRAY_DENSE, 2, TYPE_ARRAY_EMPTY, TYPE_CIRCULAR_REF, 2>>,
      <<TYPE_ARRAY_DENSE, 2, TYPE_STRING_ASCII_TINY, 1, 97, TYPE_STRING_REF, 1>>,
      <<TYPE_ARRAY_DENSE, 2, TYPE_UINT8ARRAY, 0, 0, 1, 7, TYPE_BUFFER_REF, 1>>,
      <<TYPE_ARRAY_DENSE, 2, TYPE_UINT8ARRAY, 0, 0, 1, 7, TYPE_UINT8ARRAY, 1, 1, 0, 1>>,
      <<TYPE_REFERENCE, 255, 255, 255, 255, 15>>}}
\* records whose id is below the size of its table, and what the record is
\* expected to be: the root, the element before it, that element's buffer,
\* or a view of that element's buffer
ResolvingTails ==
  {[tail |-> <<TYPE_ARRAY_DENSE, 1, TYPE_CIRCULAR_REF, 0>>, is |-> "root"],
   [tail |-> <<TYPE_ARRAY_DENSE, 2, TYPE_ARRAY_EMPTY, TYPE_REFERENCE, 1>>, is |-> "sibling"],
   [tail |-> <<TYPE_ARRAY_DENSE, 2, TYPE_STRING_ASCII_TINY, 1, 97, TYPE_STRING_REF, 0>>, is |-> "sibling"],
   [tail |-> <<TYPE_ARRAY_DENSE, 2, TYPE_UINT8ARRAY, 0, 0, 1, 7, TYPE_BUFFER_REF, 0>>, is |-> "buffer"],
   [tail |-> <<TYPE_ARRAY_DENSE, 2, TYPE_UINT8ARRAY, 0, 0, 1, 7, TYPE_UINT8ARRAY, 1, 0, 0, 1>>, is |-> "view"]}
ResolvingIds == {Header \o t.tail : t \in ResolvingTails}
\* values whose encodings hold every kind of block: aligned scalars, strings,
\* a packed array, typed arrays, a keyed container
TruncatedValues ==
  {One(Arr(<<Num(1), Str(sHello)>>)), Atom(Flt("half")), Eight(1, Num(8)),
   Value(<<Buffer(<<0, 0, 0, 0, 0, 0, 240, 63>>), Typed(TYPE_FLOAT64ARRAY, 1, 0, 1)>>, Ref(2)),
   Value(<<Buffer(<<5, 0, 0, 0, 0, 0, 0, 0>>), Typed(TYPE_BIGINT64ARRAY, 1, 0, 1)>>, Ref(2)),
   One(MapOf(<< <<Num(1), Str(sHi)>> >>))}
ProperPrefixes(bytes) == {SubSeq(bytes, 1, n) : n \in 0..Len(bytes) - 1}
\* every proper prefix of the encodings of the values
TruncatedEncodings == UNION {ProperPrefixes(Encoding(v)) : v \in TruncatedValues}
\* a scalar tag with one byte less than its payload, behind its padding
TruncatedScalars ==
  {Header \o tail : tail \in
     {<<TYPE_INT8>>, <<TYPE_INT16, 0>>, <<TYPE_INT32, 0, 0, 1, 1, 1>>, <<TYPE_UINT32, 0, 0, 1, 1, 1>>,
      <<TYPE_FLOAT32, 0, 0, 1, 1, 1>>, <<TYPE_FLOAT64, 0, 0, 1, 1, 1, 1, 1, 1, 1>>,
      <<TYPE_BIGINT_POS_SMALL, 0, 0, 1, 1, 1, 1, 1, 1, 1>>, <<TYPE_VARINT, 128>>,
      <<TYPE_STRING_ASCII_TINY, 2, 97>>, <<TYPE_STRING_UTF8_TINY, 2, 97>>,
      <<TYPE_ARRAY_PACKED_I8, 2, 1>>, <<TYPE_ARRAY_PACKED_I16, 2, 1, 0, 2>>,
      <<TYPE_UINT8ARRAY, 0, 0, 2, 1>>}}
Truncated == TruncatedEncodings \cup TruncatedScalars
Received == WrongMagic \cup WrongVersion \cup UnknownTagged \cup DanglingIds \cup ResolvingIds
\* the values serialized by an instance that also decodes received bytes
ReceiveInputs == {One(Arr(<<Num(1), Str(sHello)>>))}

InitWith(O, D, vals, calls, bytes) ==
  /\ options = O
  /\ peerOptions = D
  /\ writer = NewWriter(O)
  /\ reader = NewReader
  /\ peerReader = NewReader
  /\ heap = <<>>
  /\ values = vals
  /\ budget = calls
  /\ input = NoValue
  /\ thrown = "none"
  /\ returned = <<>>
  /\ received = bytes
  /\ decoded = <<>>

\* one value, serialized once, for every pair of configurations
Init == \E O \in OptionSpace, D \in OptionSpace, v \in Inputs : InitWith(O, D, {v}, 1, {})
\* one value, serialized once, the peer configured as the instance is
InitAlike == \E O \in OptionSpace, v \in Inputs : InitWith(O, O, {v}, 1, {})
\* a default-configured instance that is given received bytes
InitReceive == InitWith(DefaultOptions, DefaultOptions, ReceiveInputs, 1, Received)
\* ["hello", [[ ... [1] ... ]]]: arrays nested MaxStack deep, whose walk
\* exhausts the call stack after the string is registered
Deep ==
  Value([i \in 1..MaxStack |->
           IF i = 1 THEN Arr(<<Str(sHello), Ref(2)>>)
           ELSE IF i < MaxStack THEN Arr(<<Ref(i + 1)>>)
           ELSE Arr(<<Num(1)>>)],
        Ref(1))
\* the values of an instance some of whose calls fail: with a repeated
\* string, a repeated object and a cycle
FailureInputs ==
  {Deep, One(Arr(<<Str(sHello), Str(sHello)>>)),
   Value(<<Arr(<<Ref(2), Ref(2)>>), Obj(<<P(sA, Num(1))>>)>>, Ref(1)),
   Value(<<Obj(<<P(sSelf, Ref(1))>>)>>, Ref(1))}
\* ["hello", [], <tag 0xFF>: fails with three entries in the tables
FailingBytes ==
  {Header \o <<TYPE_ARRAY_DENSE, 3, TYPE_STRING_ASCII_TINY, 5>> \o sHello \o <<TYPE_ARRAY_EMPTY, 255>>}
\* class Foo { constructor() { Object.defineProperty(this, "a",
\*   {enumerable: true, get: () => { codec.serialize(arg); return 1 }}) } }
Foo(props) == [k |-> "obj", proto |-> "Foo", ctor |-> sFoo, kv |-> props]
\* new Foo() with arg = "hello"; the same after this.b = "hello"; [new Foo()]
\* with arg = ["hello", "hello"]; and the string "hello"
ReentrantInputs ==
  {One(Foo(<<P(sA, Getter(Str(sHello), Num(1)))>>)),
   One(Foo(<<P(sB, Str(sHello)), P(sA, Getter(Str(sHello), Num(1)))>>)),
   Value(<<Arr(<<Ref(2)>>), Foo(<<P(sA, Getter(Ref(3), Num(1)))>>), Arr(<<Str(sHello), Str(sHello)>>)>>, Ref(1)),
   Atom(Str(sHello))}
\* a default-configured instance whose values call it back
InitReentrant == InitWith(DefaultOptions, DefaultOptions, ReentrantInputs, MaxCalls, {})
\* [1, 2, ..., 16]
Sixteen == One(Arr([i \in 1..16 |-> Num(i)]))
\* integers on both sides of the limits of the 8-bit and 16-bit types, alone,
\* as the values of {b: 1, a: 2}, and in arrays of a length that is packed
NumberInputs ==
  {Atom(Num(n)) : n \in {0, 1, 0 - 1, 127, 128, 0 - 129, 1000, 32767, 32768, 40000}}
    \cup {ObjBA, Sixteen, Eight(1, Num(8)), Eight(1, Num(1000)), Eight(1, Num(40000)),
           Eight(0 - 1, Num(0 - 1000))}
\* one number, object or array of numbers, serialized once, the peer
\* configured as the instance is
InitNumbers == \E O \in OptionSpace, v \in NumberInputs : InitWith(O, O, {v}, 1, {})
\* buf = new ArrayBuffer(32) holding 1..32;
\* [new Uint8Array(buf, 0, 16), new Uint8Array(buf, 16, 16)]
TwoViews ==
  Value(<<Arr(<<Ref(3), Ref(4)>>), Buffer([i \in 1..32 |-> i]), Typed(TYPE_UINT8ARRAY, 2, 0, 16),
          Typed(TYPE_UINT8ARRAY, 2, 16, 16)>>, Ref(1))
\* typed arrays over a buffer of their own and over a common buffer
ViewInputs ==
  {TwoViews,
   Value(<<Buffer(<<1, 2, 3>>), Typed(TYPE_UINT8ARRAY, 1, 0, 3)>>, Ref(2)),
   Value(<<Arr(<<Ref(3), Ref(3)>>), Buffer(<<1, 0, 0, 0>>), Typed(TYPE_INT32ARRAY, 2, 0, 1)>>, Ref(1)),
   Value(<<Arr(<<Ref(3), Ref(4)>>), Buffer(<<1, 2>>), Typed(TYPE_UINT8ARRAY, 2, 0, 2),
           Typed(TYPE_UINT8ARRAY, 2, 0, 2)>>, Ref(1))}
\* one value with typed arrays, serialized once, the peer configured as the
\* instance is
InitViews == \E O \in OptionSpace, v \in ViewInputs : InitWith(O, O, {v}, 1, {})
\* the element types of the typed arrays
ElementTags == TypedArrayTags \ {TYPE_DATAVIEW}
\* new T(0) for the typed array constructor T of the tag, and [new T(0), 1]
EmptyTyped(type) == Value(<<Buffer(<<>>), Typed(type, 1, 0, 0)>>, Ref(2))
EmptyTypedThen(type) == Value(<<Arr(<<Ref(3), Num(1)>>), Buffer(<<>>), Typed(type, 2, 0, 0)>>, Ref(1))
\* payloads of every shape, and the typed arrays without elements
CursorInputs ==
  Graphs \cup {EmptyTyped(type) : type \in ElementTags} \cup {EmptyTypedThen(type) : type \in ElementTags}
\* one payload, serialized once, the peer configured as the instance is
InitCursor == \E O \in OptionSpace, v \in CursorInputs : InitWith(O, O, {v}, 1, {})
\* the values passed to writeVarint: both sides of 2^7, 2^14, 2^21, 2^28 and
\* 2^31, and 2^32 - 1
VarintSamples ==
  {Word(hi, lo) : hi \in {0, 1, 31, 32, 4095, 4096, 32767, 32768, 65535},
                  lo \in {0, 1, 127, 128, 16383, 16384, 65535}}
\* the initial sizes a pool is built with, and the byte counts passed to ensure
PoolSizes == {1, 200}
EnsureSizes == {0, 1, 5, 128, 129, 300}
\* the blocks passed to writeBulkAligned and the arrays passed to writePackedArray
Block(n) == [i \in 1..n |-> i % 256]
Ones(n) == [i \in 1..n |-> Num(1)]
\* a pool of its own: an instance built with memoryPoolSize, whose pool
\* primitives are called one by one
InitPool ==
  \E size \in PoolSizes :
    InitWith([DefaultOptions EXCEPT !.memoryPoolSize = size],
             [DefaultOptions EXCEPT !.memoryPoolSize = size], {}, MaxPrimitives, {})
\* a data property that is not enumerable
Hidden(key, val) == [key |-> key, val |-> val, e |-> FALSE, w |-> TRUE, c |-> TRUE]
\* the property lists of the objects that are classified: none, a data
\* property, a method, a property that is not enumerable, and their mixes
PropertyLists ==
  {<<>>, <<P(sA, Num(1))>>, <<P(sF, Fn(sArrow, sF))>>, <<Hidden(sA, Num(1))>>,
   <<P(sA, Num(1)), P(sF, Fn(sArrow, sF))>>, <<Hidden(sA, Num(1)), P(sF, Fn(sArrow, sF))>>}
\* object literals and instances of class Foo with these properties
ClassifyInputs == {One(Obj(props)) : props \in PropertyLists} \cup {One(Foo(props)) : props \in PropertyLists}
\* one object, serialized once, the peer configured as the instance is
InitClassify == \E O \in OptionSpace, v \in ClassifyInputs : InitWith(O, O, {v}, 1, {})

\* finite value graphs, cyclic and acyclic; the cycles run through array
\* elements, properties, map keys and values, set members, a property that is
\* not enumerable, and the errors of an AggregateError
CycleInputs ==
  { \* a = []; a[0] = a
    Value(<<Arr(<<Ref(1)>>)>>, Ref(1)),
    \* V = {}; V.self = V
    Value(<<Obj(<<P(sSelf, Ref(1))>>)>>, Ref(1)),
    \* c = {}; c.self = c; [c, c]
    Value(<<Arr(<<Ref(2), Ref(2)>>), Obj(<<P(sSelf, Ref(2))>>)>>, Ref(1)),
    \* p = {}; q = {b: p}; p.a = q
    Value(<<Obj(<<P(sA, Ref(2))>>), Obj(<<P(sB, Ref(1))>>)>>, Ref(1)),
    \* v = []; a = [v]; v[0] = a; [a]
    Value(<<Arr(<<Ref(2)>>), Arr(<<Ref(3)>>), Arr(<<Ref(2)>>)>>, Ref(1)),
    \* m = new Map(); m.set(1, m)
    Value(<<MapOf(<< <<Num(1), Ref(1)>> >>)>>, Ref(1)),
    \* m = new Map(); m.set(m, 1)
    Value(<<MapOf(<< <<Ref(1), Num(1)>> >>)>>, Ref(1)),
    \* s = new Set(); s.add(s)
    Value(<<SetOf(<<Ref(1)>>)>>, Ref(1)),
    \* x = {a: 1}; [x, x]
    Value(<<Arr(<<Ref(2), Ref(2)>>), Obj(<<P(sA, Num(1))>>)>>, Ref(1)),
    \* x = [1]; [[x], [x]]
    Value(<<Arr(<<Ref(2), Ref(3)>>), Arr(<<Ref(4)>>), Arr(<<Ref(4)>>), Arr(<<Num(1)>>)>>, Ref(1)),
    \* g = new AggregateError([new Error("a")], "hi"); [g, g]
    Value(<<Arr(<<Ref(2), Ref(2)>>), Err(TYPE_AGGREGATE_ERROR, sHi, sStack, <<Ref(3)>>),
            Err(TYPE_ERROR, sA, sWorld, <<>>)>>, Ref(1)),
    \* g = new AggregateError([], "hi"); g.errors.push(g)
    Value(<<Err(TYPE_AGGREGATE_ERROR, sHi, sStack, <<Ref(1)>>)>>, Ref(1)),
    \* o = {}; Object.defineProperty(o, "self", {value: o, writable: true, configurable: true})
    Value(<<Obj(<<Hidden(sSelf, Ref(1))>>)>>, Ref(1)),
    \* [1, [2, [3]]]
    Value(<<Arr(<<Num(1), Ref(2)>>), Arr(<<Num(2), Ref(3)>>), Arr(<<Num(3)>>)>>, Ref(1)) }
InitCycles == \E O \in OptionSpace, v \in CycleInputs : InitWith(O, O, {v}, 1, {})

\* [0, 1, ..., n - 1]
Counting(n) == [i \in 1..n |-> Num(i - 1)]
\* array[index] = v
Put(array, index, v) == [array EXCEPT ![index + 1] = v]
sFive == <<53>>
\* arrays of the lengths at which the sampling step is 1 (below 64) and 2 (64),
\* of numbers only and with one element that is not a number at index 0, at a
\* sampled and at an unsampled index
PackedInputs ==
  {One(Arr(Counting(n))) : n \in {7, 8, 12, 16, 17, 32, 63, 64}}
    \cup {One(Arr(Put(Counting(n), n - 1, Num(1000)))) : n \in {8, 64}}
    \cup {One(Arr(Put(Counting(n), n - 1, Num(100000)))) : n \in {8, 64}}
    \cup {One(Arr(Put(Counting(n), 1, Flt(f)))) : n \in {8, 64}, f \in {"half", "tenth", "NaN", "NegZero"}}
    \cup {One(Arr(Put(Counting(n), 3, Str(sHi)))) : n \in {8, 32, 63}}
    \cup {One(Arr(Put(Counting(64), i, Str(sHi)))) : i \in {0, 1, 2, 62, 63}}
    \cup {One(Arr(Put(Counting(64), 1, v))) : v \in {Null, Undefined, True, Str(sFive), Str(<<>>)}}
InitPacked == \E O \in OptionSpace, v \in PackedInputs : InitWith(O, O, {v}, 1, {})
\* a default-configured instance some of whose calls fail
InitFailure == InitWith(DefaultOptions, DefaultOptions, FailureInputs, MaxCalls, FailingBytes)
\* a default-configured instance that is given truncated bytes
InitTruncated == InitWith(DefaultOptions, DefaultOptions, ReceiveInputs, 1, Truncated)
\* a default-configured instance used for MaxCalls calls
InitReuse == InitWith(DefaultOptions, DefaultOptions, ReuseInputs, MaxCalls, {})

\* the bytes a returned view shows now
ViewBytes(h) ==
  IF h.buf = writer.bufId THEN Prefix(writer.u8, h.len) ELSE Prefix(writer.graves[h.buf], h.len)

\* what a serialize call hands back: W is the writer at the return, r the view
\* getResult gives, F the writer of a new instance after the same call, prev
\* what the serialize call before threw
Returned(W, r, v, F, prev) ==
  [buf |-> r.buf, len |-> r.len, value |-> v, snap |-> Prefix(W.u8, r.len), pad |-> W.pad,
   after |-> prev,
   log |-> W.log, fresh |-> Prefix(F.u8, F.pos), canon |-> Canon(v.heap, v.root)]

\* serialize(value) on the instance
Serialize ==
  /\ budget > 0
  /\ \E v \in values :
       /\ writer' = serialize(writer, v.heap, options, v.root)
       /\ input' = v
       /\ thrown' = writer'.err
       /\ returned' = IF writer'.err = "none"
                      THEN Append(returned, Returned(writer', getResult(writer'), v,
                                                     serialize(NewWriter(options), v.heap, options, v.root),
                                                     thrown))
                      ELSE returned
  /\ budget' = budget - 1
  /\ UNCHANGED <<options, peerOptions, reader, peerReader, heap, values, received, decoded>>

\* the reader state R of an instance whose fields are rd, allocating in the heap
WithHeap(rd) ==
  [buffer |-> rd.buffer, pos |-> rd.pos, deserializeRefs |-> rd.deserializeRefs,
   deserializeStrings |-> rd.deserializeStrings, deserializeBuffers |-> rd.deserializeBuffers,
   err |-> rd.err, heap |-> heap]
WithoutHeap(R) ==
  [buffer |-> R.buffer, pos |-> R.pos, deserializeRefs |-> R.deserializeRefs,
   deserializeStrings |-> R.deserializeStrings, deserializeBuffers |-> R.deserializeBuffers,
   err |-> R.err]
\* the record of a deserialize call that returned x, on a reader whose call
\* before threw prev
Decoding(who, h, bytes, x, prev) ==
  [who |-> who, h |-> h, bytes |-> bytes, err |-> x.r.err, root |-> x.v, pos |-> x.r.pos,
   after |-> prev,
   base |-> Len(heap), top |-> Len(x.r.heap),
   canon |-> IF x.r.err = "none" THEN Canon(x.r.heap, x.v) ELSE <<>>,
   reach |-> IF x.r.err = "none" THEN Reach(x.r.heap, x.v) ELSE {}]
\* the objects the call created are in the heap, the call is on record
Decoded(who, h, bytes, x) ==
  /\ heap' = x.r.heap
  /\ decoded' = Append(decoded, Decoding(who, h, bytes, x,
                                          IF who = "self" THEN reader.err ELSE peerReader.err))
  /\ reader' = IF who = "self" THEN WithoutHeap(x.r) ELSE reader
  /\ peerReader' = IF who = "peer" THEN WithoutHeap(x.r) ELSE peerReader

\* the byte sequences the application can pass to deserialize: the returned
\* sequences as they are now, and the received ones
Offered ==
  {[h |-> h, bytes |-> ViewBytes(returned[h])] : h \in 1..Len(returned)}
    \cup {[h |-> 0, bytes |-> b] : b \in received}

\* deserialize(bytes) on the instance
Deserialize ==
  /\ Len(decoded) < MaxDecodes
  /\ \E g \in Offered :
       Decoded("self", g.h, g.bytes, deserialize(WithHeap(reader), options, g.bytes))
  /\ UNCHANGED <<options, peerOptions, writer, values, budget, input, thrown, returned, received>>

\* deserialize(bytes) on the peer instance
PeerDeserialize ==
  /\ Len(decoded) < MaxDecodes
  /\ \E g \in Offered :
       Decoded("peer", g.h, g.bytes, deserialize(WithHeap(peerReader), peerOptions, g.bytes))
  /\ UNCHANGED <<options, peerOptions, writer, values, budget, input, thrown, returned, received>>


(***************************************************************************)
(* The pool on its own: the primitives of UltraMemoryPool called one by    *)
(* one on the pool of an instance, and readVarint called on the bytes the  *)
(* last writeVarint stored.  input is the last call: the primitive op, its *)
(* argument arg, and before, the pool as the call found it.  decoded holds *)
(* what readVarint returned: the value, the exception err and the position *)
(* pos it stopped at, with u, the number that was written, and end, the    *)
(* position the writer stopped at.                                         *)
(***************************************************************************)
Applied(op, arg, W) ==
  /\ budget' = budget - 1
  /\ writer' = W
  /\ input' = [op |-> op, arg |-> arg, before |-> writer]
  /\ UNCHANGED <<options, peerOptions, reader, peerReader, heap, values, thrown, returned, received, decoded>>
PoolEnsure ==
  /\ budget > 0
  /\ \E n \in EnsureSizes : Applied("ensure", n, ensure(writer, n))
PoolAlignPos ==
  /\ budget > 0
  /\ \E a \in {2, 4, 8} : Applied("alignPos", a, alignPos(writer, a))
PoolWriteU8 ==
  /\ budget > 0
  /\ Applied("writeU8", 255, writeU8(writer, 255))
PoolWriteI16 ==
  /\ budget > 0
  /\ Applied("writeI16", 0 - 2, writeI16(writer, 0 - 2))
PoolWriteU32 ==
  /\ budget > 0
  /\ Applied("writeU32", MAGIC, writeU32(writer, MAGIC))
PoolWriteI32 ==
  /\ budget > 0
  /\ Applied("writeI32", 0 - 2, writeI32(writer, 0 - 2))
PoolWriteF32 ==
  /\ budget > 0
  /\ Applied("writeF32", Flt("half"), writeF32(writer, Flt("half")))
PoolWriteF64 ==
  /\ budget > 0
  /\ Applied("writeF64", Flt("tenth"), writeF64(writer, Flt("tenth")))
PoolWriteBigInt64 ==
  /\ budget > 0
  /\ Applied("writeBigInt64", 5, writeBigInt64(writer, 5))
PoolWriteVarint ==
  /\ budget > 0
  /\ \E u \in VarintSamples : Applied("writeVarint", u, writeVarint32(writer, u))
PoolWriteBulkAligned ==
  /\ budget > 0
  /\ \E n \in {0, 3, 130}, elementSize \in {1, 8} :
       Applied("writeBulkAligned", <<n, elementSize>>, writeBulkAligned(writer, Block(n), elementSize))
PoolWritePackedArray ==
  /\ budget > 0
  /\ \E n \in {8, 40}, type \in {TYPE_ARRAY_PACKED_I8, TYPE_ARRAY_PACKED_F64} :
       Applied("writePackedArray", <<n, type>>, writePackedArray(writer, Ones(n), type))
\* what readVarint returned for the bytes of u
VarintReturned(x, u, end) == [u |-> u, end |-> end, value |-> x.v, err |-> x.r.err, pos |-> x.r.pos]
\* readVarint at the position the last writeVarint started at
PoolReadVarint ==
  /\ input # NoValue
  /\ input.op = "writeVarint"
  /\ decoded = <<>>
  /\ decoded' = <<VarintReturned(readVarint32([WithHeap(NewReader) EXCEPT !.buffer = Bytes(writer),
                                                                            !.pos = input.before.pos]),
                                  input.arg, writer.pos)>>
  /\ UNCHANGED <<options, peerOptions, writer, reader, peerReader, heap, values, budget, input, thrown,
                 returned, received>>
NextPool ==
  \/ PoolEnsure \/ PoolAlignPos \/ PoolWriteU8 \/ PoolWriteI16 \/ PoolWriteU32 \/ PoolWriteI32
  \/ PoolWriteF32 \/ PoolWriteF64 \/ PoolWriteBigInt64 \/ PoolWriteVarint \/ PoolWriteBulkAligned
  \/ PoolWritePackedArray \/ PoolReadVarint

Next == Serialize \/ Deserialize \/ PeerDeserialize
Spec == Init /\ [][Next]_vars
SpecAlike == InitAlike /\ [][Next]_vars
SpecReceive == InitReceive /\ [][Next]_vars
SpecTruncated == InitTruncated /\ [][Next]_vars
SpecFailure == InitFailure /\ [][Next]_vars
SpecReentrant == InitReentrant /\ [][Next]_vars
SpecNumbers == InitNumbers /\ [][Next]_vars
SpecViews == InitViews /\ [][Next]_vars
SpecCursor == InitCursor /\ [][Next]_vars
SpecPool == InitPool /\ [][NextPool]_vars
SpecClassify == InitClassify /\ [][Next]_vars
SpecCycles == InitCycles /\ [][Next]_vars
SpecPacked == InitPacked /\ [][Next]_vars
SpecReuse == InitReuse /\ [][Next]_vars

(***************************************************************************)
(* What the claims speak of                                                *)
(***************************************************************************)
Decodes == {decoded[i] : i \in 1..Len(decoded)}
Returns == {returned[i] : i \in 1..Len(returned)}
\* the value a decode was given the bytes of
Original(d) == returned[d.h].value
\* the decode read the bytes exactly as serialize returned them
Faithful(d) == d.h > 0 /\ d.bytes = returned[d.h].snap
\* the result is the original, node for node, shared and cyclic identities included
RoundTrips(d) == d.err = "none" /\ d.canon = returned[d.h].canon

\* the supported domain of the round trip: primitives, numbers, strings, arrays, plain
\* objects with data properties of default attributes, maps and sets, without cycles
PlainData(node) ==
  \/ node.k \in {"arr", "map", "set"}
  \/ /\ node.k = "obj"
     /\ node.proto = "Object"
     /\ \A i \in 1..Len(node.kv) : node.kv[i].e /\ node.kv[i].w /\ node.kv[i].c /\ node.kv[i].val.t # "fn"
Acyclic(v) == detectCircularReferences(NewWriter(DefaultOptions), v.heap, DefaultOptions, v.root, {}).circ = {}
Supported(v) ==
  /\ v.root.t # "fn"
  /\ \A i \in 1..Len(v.heap) : PlainData(v.heap[i])
  /\ Acyclic(v)
\* the number of edges of the value that lead to the object id
InDegree(v, id) ==
  Cardinality({<<i, j>> \in (1..Len(v.heap)) \X (1..8) :
                 j <= Len(CanonChildren(v.heap[i])) /\ CanonChildren(v.heap[i])[j] = Ref(id)})
\* an object, array, map, set, error or typed array of the value is reached by two edges
HasSharedNode(v) ==
  \E id \in 1..Len(v.heap) : v.heap[id].k # "buffer" /\ InDegree(v, id) >= 2

\* the identities of a canonical graph: per node its kind and, per child in
\* order, the number of the node the child is (0 for a primitive)
Edges(node) ==
  CASE node.k = "typed" -> <<node.buf>>
    [] node.k = "buffer" -> <<>>
    [] OTHER -> CanonChildren(node)
EdgeIds(e) == [j \in 1..Len(e) |-> IF e[j].t = "ref" THEN e[j].id ELSE 0]
Skeleton(c) ==
  [root |-> IF c.root.t = "ref" THEN c.root.id ELSE 0,
   nodes |-> [i \in 1..Len(c.nodes) |-> [k |-> c.nodes[i].k, to |-> EdgeIds(Edges(c.nodes[i]))]]]
\* the decode succeeded and its result has the identities of the original
SameIdentities(d) == d.err = "none" /\ Skeleton(d.canon) = Skeleton(returned[d.h].canon)
\* a deserialize call on the serializing instance, given the bytes as they were returned
OwnDecodes == {d \in Decodes : d.who = "self" /\ Faithful(d)}
PeerDecodes == {d \in Decodes : d.who = "peer" /\ Faithful(d)}

(***************************************************************************)
(* C1  Round trip.  On a default-configured instance, for every value of   *)
(* the supported domain, deserialize(serialize(V)) is equivalent to V.     *)
(***************************************************************************)
\* C1: every decode, on a default instance, of the bytes returned for a
\* supported value yields a graph equal to the value
RoundTrip ==
  \A d \in OwnDecodes :
    (options = DefaultOptions /\ Supported(Original(d))) => RoundTrips(d)
\* C1, the case: a default instance has decoded the bytes of a supported value
\* that holds a string of at most three code units before a repeated longer one
RoundTripLost ==
  \E d \in OwnDecodes :
    /\ options = DefaultOptions
    /\ Supported(Original(d))
    /\ d.err = "none"
    /\ d.canon # returned[d.h].canon

(***************************************************************************)
(* C2  Reference preservation.  With deduplication, two paths to one node  *)
(* of V lead to one node of deserialize(serialize(V)).                     *)
(***************************************************************************)
\* C2: when deduplication is enabled and an acyclic value reaches an object,
\* array, map, set, error or typed array by two edges, the decode succeeds and
\* the two edges of the result lead to one node, the one decoded for the first
ReferencePreservation ==
  \A d \in OwnDecodes :
    (options.deduplication /\ Acyclic(Original(d)) /\ HasSharedNode(Original(d)))
      => SameIdentities(d)
\* C2, the case: a value with a shared node has been decoded and the identities
\* of the result are not those of the value
ReferenceMisresolved ==
  \E d \in OwnDecodes :
    /\ options.deduplication
    /\ Acyclic(Original(d))
    /\ HasSharedNode(Original(d))
    /\ d.err = "none"
    /\ Skeleton(d.canon) # Skeleton(returned[d.h].canon)

(***************************************************************************)
(* C3  Cycle preservation.  With detectCircular, a back-edge to an         *)
(* ancestor A decodes to the node reconstructed for A.                     *)
(***************************************************************************)
\* C3: when detectCircular is enabled, deduplication on or off, the decode of a
\* cyclic value succeeds and every back-edge of the result leads to the node
\* reconstructed for the ancestor it led to in the value
CyclePreservation ==
  \A d \in OwnDecodes :
    (options.detectCircular /\ ~Acyclic(Original(d))) => SameIdentities(d)
\* C3, the case: a cyclic value has been decoded and a back-edge of the result
\* leads to another node than the ancestor's
CycleMisresolved ==
  \E d \in OwnDecodes :
    /\ options.detectCircular
    /\ ~Acyclic(Original(d))
    /\ d.err = "none"
    /\ Skeleton(d.canon) # Skeleton(returned[d.h].canon)

(***************************************************************************)
(* C4  Configuration independence of the decoder.  A decoder of any        *)
(* configuration reconstructs the input from the output of an encoder of   *)
(* any configuration.                                                      *)
(***************************************************************************)
\* C4: whenever the serializing instance reconstructs the value from the bytes
\* it returned, a peer of any other configuration reconstructs it from the same
\* bytes as well
DecoderIndependence ==
  \A d \in PeerDecodes : \A e \in OwnDecodes :
    (d.h = e.h /\ RoundTrips(e)) => RoundTrips(d)
\* C4, the case: the instance and a peer of another configuration have decoded
\* the same bytes, and only the instance's result equals the value
DecoderDependence ==
  \E d \in PeerDecodes : \E e \in OwnDecodes :
    /\ d.h = e.h
    /\ peerOptions # options
    /\ RoundTrips(e)
    /\ d.err = "none"
    /\ ~RoundTrips(d)

(***************************************************************************)
(* C5  serialize is pure.  The bytes returned for a value do not depend on *)
(* the calls made before on the instance.                                  *)
(***************************************************************************)
\* C5: the bytes every serialize call returns are the bytes a newly
\* constructed instance of the same options returns for the same value
SerializePure == \A r \in Returns : r.snap = r.fresh
\* C5, the case: a second or later call has returned bytes that a new instance
\* does not return for the value
SerializeTainted ==
  \E i \in 2..Len(returned) : returned[i].snap # returned[i].fresh

(***************************************************************************)
(* C6  Output ownership.  The bytes returned by a serialize call stay as   *)
(* they were returned, whatever the instance does later.                   *)
(***************************************************************************)
\* C6: every sequence a serialize call returned shows, at all later times, the
\* bytes it showed when it was returned
OutputOwned == \A r \in Returns : ViewBytes(r) = r.snap
\* C6, the case: after a later serialize call, a sequence returned earlier shows
\* other bytes than it did
OutputOverwritten ==
  \E i \in 1..Len(returned) : i < Len(returned) /\ ViewBytes(returned[i]) # returned[i].snap

(***************************************************************************)
(* C7  Key determinism.  Plain objects that differ in insertion order only *)
(* serialize to the same bytes, keys ascending.                            *)
(***************************************************************************)
\* a plain object without nested objects
IsPlainObject(v) ==
  /\ v.root = Ref(1)
  /\ Len(v.heap) = 1
  /\ v.heap[1].k = "obj"
  /\ PlainData(v.heap[1])
\* C7: two plain objects with the same keys and values serialize to the same
\* bytes whatever the insertion orders, and the bytes of {b: 1, a: 2} are the
\* tag OBJECT_LITERAL, the count 2, then the key "a" and later the key "b"
KeyDeterminism ==
  /\ \A r1 \in Returns : \A r2 \in Returns :
       (IsPlainObject(r1.value) /\ IsPlainObject(r2.value) /\ r1.canon = r2.canon)
         => r1.snap = r2.snap
  /\ \A r \in Returns :
       r.value = ObjBA =>
         /\ SubSeq(r.snap, 6, 10) = <<TYPE_OBJECT_LITERAL, 2, TYPE_STRING_ASCII_TINY, 1, 97>>
         /\ SubSeq(r.snap, 17, 19) = <<TYPE_STRING_ASCII_TINY, 1, 98>>
\* C7, the case: {b: 1, a: 2} and {a: 2, b: 1} have both been serialized on the
\* instance and the two sequences differ
KeyOrderVisible ==
  \E r1 \in Returns : \E r2 \in Returns :
    r1.value = ObjBA /\ r2.value = ObjAB /\ r1.snap # r2.snap

(***************************************************************************)
(* C8  Alignment.  Every scalar of 2, 4 or 8 bytes and every element block *)
(* of a packed or typed array starts at a multiple of its width.           *)
(***************************************************************************)
\* C8: in every sequence serialize returned, every scalar of k = 2, 4 or 8
\* bytes and every packed-array or typed-array element block of element width
\* k starts at an offset o with o mod k = 0
Alignment == \A r \in Returns : \A b \in r.log : b.k \in {2, 4, 8} /\ b.off % b.k = 0
\* C8, the case: a typed array has been serialized, and its block of 8-byte
\* elements starts right after offsets that alignPos skipped
AlignedBlockAfterPadding ==
  \E r \in Returns :
    /\ \E i \in 1..Len(r.value.heap) : r.value.heap[i].k = "typed"
    /\ \E b \in r.log : b.k = 8 /\ b.off > 5 /\ (b.off - 1) \in r.pad /\ b.off + 8 <= r.len

(***************************************************************************)
(* C9  Zero padding.  Every padding byte of every returned sequence is 0,  *)
(* in the second and later calls as in the first.                          *)
(***************************************************************************)
\* C9: in every sequence serialize returned, the byte at every offset that
\* alignPos skipped is 0
ZeroPadding == \A r \in Returns : \A o \in r.pad : o < r.len => r.snap[o + 1] = 0
\* C9, the case: a second or later call has returned a sequence with a padding
\* byte that an earlier call wrote as data
StalePadding ==
  \E i \in 2..Len(returned) : \E o \in returned[i].pad :
    o < returned[i].len /\ returned[i].snap[o + 1] # 0

(***************************************************************************)
(* C10  Idempotence of decode.  Two decodes of the same bytes on one       *)
(* instance give equal graphs without a common node; nothing registered in *)
(* one call resolves in a later one.                                       *)
(***************************************************************************)
\* C10: two deserialize calls of one instance on the same bytes end alike and
\* return equal graphs that share no object, and every object a call returns
\* is one the call itself created
DecodeIdempotence ==
  \A i \in 1..Len(decoded) : \A j \in 1..Len(decoded) :
    (i < j /\ decoded[i].who = decoded[j].who /\ decoded[i].bytes = decoded[j].bytes)
      => /\ decoded[i].err = decoded[j].err
         /\ decoded[i].canon = decoded[j].canon
         /\ decoded[i].reach \cap decoded[j].reach = {}
         /\ decoded[j].reach \subseteq (decoded[j].base + 1)..decoded[j].top
\* C10, the case: the instance has decoded twice the bytes of a value that
\* holds a REFERENCE, and both calls returned a graph
DecodedTwice ==
  /\ Len(decoded) = 2
  /\ decoded[1].who = "self" /\ decoded[2].who = "self"
  /\ decoded[1].bytes = decoded[2].bytes
  /\ decoded[1].err = "none" /\ decoded[2].err = "none"
  /\ options.deduplication /\ HasSharedNode(Original(decoded[1]))
  /\ Cardinality(decoded[2].reach) >= 2

(***************************************************************************)
(* C11  Header framing.  Every output is the magic, little-endian, the     *)
(* version 5, and one encoded value, the root, its tag at offset 5.        *)
(***************************************************************************)
\* the five bytes every output starts with
\* C11: every sequence serialize returned starts with the bytes 35 52 42 54 of
\* the magic and the version byte 05, holds the tag of the root at offset 5,
\* and holds nothing after the root: a decode of it that succeeds stops at its end
HeaderFraming ==
  /\ \A r \in Returns :
       /\ r.len >= 6
       /\ SubSeq(r.snap, 1, 5) = <<53, 82, 66, 84, 5>>
       /\ SubSeq(r.snap, 1, 5) = Header
       /\ r.snap[6] = detect(r.value.heap, r.value.root)
  /\ \A d \in OwnDecodes : d.err = "none" => d.pos = Len(d.bytes)
\* C11, the case: a container with contents has been serialized and decoded
\* to the last byte
FramedAndRead ==
  \E d \in OwnDecodes :
    /\ d.err = "none"
    /\ Original(d).root.t = "ref"
    /\ returned[d.h].len > 16
    /\ returned[d.h].snap[6] = TYPE_OBJECT_LITERAL
    /\ d.pos = returned[d.h].len

\* C12: deserialize fails with InvalidMagic on every input whose first four
\* bytes are not the little-endian magic, and with UnsupportedFormat on every
\* input with the magic and a fifth byte other than 5; in both cases the
\* cursor stops behind the header field, no object is created and no value is
\* returned.
HasMagic(bytes) == Len(bytes) >= 4 /\ SubSeq(bytes, 1, 4) = LEBytes(MAGIC, 4)
Rejected(d, err, pos) ==
  d.err = err /\ d.pos = pos /\ d.top = d.base /\ d.root = Undefined /\ d.canon = <<>>
HeaderValidation ==
  \A d \in Decodes :
    /\ Len(d.bytes) >= 4 /\ ~HasMagic(d.bytes) => Rejected(d, "InvalidMagic", 4)
    /\ Len(d.bytes) >= 5 /\ HasMagic(d.bytes) /\ d.bytes[5] # 5 => Rejected(d, "UnsupportedFormat", 5)
BothHeaderFailures ==
  /\ Len(decoded) = 2
  /\ ~HasMagic(decoded[1].bytes) /\ decoded[1].err = "InvalidMagic"
  /\ HasMagic(decoded[2].bytes) /\ decoded[2].bytes[5] = 6 /\ decoded[2].err = "UnsupportedFormat"

\* C13: deserialize fails with UnknownTag, and returns no value, when the
\* byte in a tag position is not an entry of the tag table, whichever group
\* the byte falls in.
UnknownTagRejected ==
  \A d \in Decodes : d.bytes \in UnknownTagged => d.err = "UnknownTag"
\* the unassigned subtypes that are rejected: those of the groups whose reader
\* has a default branch
UnknownPrimitiveRejected ==
  \E d \in Decodes :
    /\ d.bytes \in UnknownTagged /\ Len(d.bytes) = 6 /\ d.bytes[6] \in {15, 31, 210, 255}
    /\ d.err = "UnknownTag" /\ d.pos = 6

\* C14: a REFERENCE, CIRCULAR_REF, STRING_REF or BUFFER_REF record, or a
\* typed-array record with the share flag set, whose id is the current size of
\* its table or more makes deserialize fail with InvalidReference; with an id
\* below the size the record is the entry of the table with that id.
ExpectedOf(bytes) == (CHOOSE t \in ResolvingTails : Header \o t.tail = bytes).is
LastElement(c) == c.nodes[1].el[Len(c.nodes[1].el)]
Resolves(c, is) ==
  CASE is = "root" -> LastElement(c) = c.root
    [] is = "sibling" -> LastElement(c) = c.nodes[1].el[1]
    [] is = "buffer" -> LastElement(c) = c.nodes[c.nodes[1].el[1].id].buf
    [] OTHER -> /\ LastElement(c) # c.nodes[1].el[1]
                /\ c.nodes[LastElement(c).id].buf = c.nodes[c.nodes[1].el[1].id].buf
InvalidReference ==
  \A d \in Decodes :
    /\ d.bytes \in DanglingIds => d.err = "InvalidReference"
    /\ d.bytes \in ResolvingIds => d.err = "none" /\ Resolves(d.canon, ExpectedOf(d.bytes))
DanglingAndResolving ==
  /\ Len(decoded) = 2
  /\ decoded[1].bytes = Header \o <<TYPE_ARRAY_DENSE, 2, TYPE_ARRAY_EMPTY, TYPE_REFERENCE, 2>>
  /\ decoded[1].err = "InvalidReference"
  /\ decoded[2].bytes = Header \o <<TYPE_ARRAY_DENSE, 2, TYPE_ARRAY_EMPTY, TYPE_REFERENCE, 1>>
  /\ decoded[2].err = "none"

\* C15: every read of the decoder finds out that fewer bytes remain than it
\* needs and fails with BufferUnderflow (the end of the input at a tag
\* position included), so that deserialize of a truncated record, and of
\* every proper prefix of an encoding, fails and returns no value.
Underflows == {"BufferUnderflow", "UnexpectedEnd"}
BufferUnderflow == \A d \in Decodes : d.bytes \in Truncated => d.err \in Underflows
\* the part that holds: no proper prefix of an encoding is decoded to a value,
\* and every truncated block behind an ensureBytes fails with BufferUnderflow
PrefixBothWays ==
  /\ Len(decoded) = 2
  /\ decoded[1].bytes \in TruncatedEncodings /\ Len(decoded[1].bytes) = 15
  /\ decoded[1].err = "BufferUnderflow"
  /\ decoded[2].bytes = Header \o <<TYPE_ARRAY_DENSE>> /\ decoded[2].err = "BufferUnderflow"

\* C16: the serialize call after one that threw returns what a new instance
\* returns for the value, padding bytes aside, and the deserialize call after
\* one that threw ends as the call of a new instance ends and returns an equal
\* graph: no id and no node of the later call comes from the failed one.
SameOffPadding(r) ==
  /\ Len(r.snap) = Len(r.fresh)
  /\ \A o \in 1..r.len : (o - 1) \notin r.pad => r.snap[o] = r.fresh[o]
CleanOutcome(x) == [err |-> x.r.err, canon |-> IF x.r.err = "none" THEN Canon(x.r.heap, x.v) ELSE <<>>]
CleanDecode(d) ==
  CleanOutcome(deserialize(WithHeap(NewReader), IF d.who = "self" THEN options ELSE peerOptions, d.bytes))
ReuseAfterFailure ==
  /\ \A r \in Returns : r.after # "none" => SameOffPadding(r)
  /\ \A d \in Decodes : d.after # "none" => [err |-> d.err, canon |-> d.canon] = CleanDecode(d)
\* both cases in one behaviour: a serialize that threw, then one that returned
\* bytes with a STRING_REF, and a decode that threw, then a decode of these bytes
ReusedAfterFailures ==
  /\ Len(returned) >= 1 /\ returned[1].after = "RangeError"
  /\ returned[1].value = One(Arr(<<Str(sHello), Str(sHello)>>))
  /\ Len(decoded) = 2 /\ decoded[1].who = "self" /\ decoded[1].err = "UnknownTag"
  /\ decoded[2].who = "self" /\ decoded[2].after = "UnknownTag" /\ decoded[2].h = 1
  /\ decoded[2].err = "none"

\* C17: a serialize call made by a getter on the instance that is reading
\* the property is carried out, not refused: the outer call returns, and what
\* it returns is not what an instance returns whose getter leaves it alone;
\* at the return the object table does not hold the root of the outer call
\* and the string table is the one of the nested call.
HasGetter(v) ==
  \E i \in 1..Len(v.heap) :
    v.heap[i].k = "obj" /\ \E j \in 1..Len(v.heap[i].kv) : v.heap[i].kv[j].val.t = "getter"
\* the value as its readers see it: every accessor holds what its getter returns
Settled(v) ==
  Value([i \in 1..Len(v.heap) |->
           IF v.heap[i].k = "obj"
           THEN [v.heap[i] EXCEPT !.kv = [j \in 1..Len(v.heap[i].kv) |->
                                            [v.heap[i].kv[j] EXCEPT !.val = Got(v.heap[i].kv[j].val)]]]
           ELSE v.heap[i]],
        v.root)
NonReentrancy ==
  /\ HasGetter(input) =>
       thrown = "none" /\ IndexOf(writer.refs, input.root.id) = 0 /\ writer.strings = <<sHello>>
  /\ \A r \in Returns : HasGetter(r.value) => r.snap # Encoding(Settled(r.value))
  /\ \A d \in Decodes :
       (d.h > 0 /\ HasGetter(Original(d)) /\ Faithful(d))
         => d.err = "none" /\ d.canon # Canon(Settled(Original(d)).heap, Original(d).root)
\* the outer call has returned the bytes of the nested call's argument, and
\* they have been decoded to that argument
NestedCallReturned ==
  \E d \in OwnDecodes :
    /\ Original(d) = One(Foo(<<P(sA, Getter(Str(sHello), Num(1)))>>))
    /\ d.err = "none" /\ d.root = Str(sHello)
    /\ Len(d.bytes) = 20 /\ d.pos = 12

\* C18: an integer is written with the narrowest of the tags INT8, INT16 and
\* INT32 that holds it: 1000 as the tag 0x11 at offset 5 and the bytes E8 03
\* at offset 6, the values 2 and 1 of {b: 1, a: 2} as INT8.
NarrowestTag(n) ==
  IF Abs(n) <= INT8_MAX THEN TYPE_INT8 ELSE IF Abs(n) <= INT16_MAX THEN TYPE_INT16 ELSE TYPE_INT32
IntegerTagSelection ==
  \A r \in Returns :
    /\ r.value.root.t = "num" => r.snap[6] = NarrowestTag(r.value.root.n)
    /\ r.value = Atom(Num(1000)) => SubSeq(r.snap, 6, 8) = <<TYPE_INT16, 232, 3>>
    /\ r.value = ObjBA => SubSeq(r.snap, 11, 12) = <<TYPE_INT8, 2>> /\ SubSeq(r.snap, 16, 17) = <<TYPE_INT8, 1>>
\* what is written: 1000 as INT32, padded to offset 8
ThousandAsInt32 ==
  \E r \in Returns :
    r.value = Atom(Num(1000)) /\ r.snap = Header \o <<TYPE_INT32, 0, 0, 232, 3, 0, 0>>

\* C19: an array of integers that is packed is packed with the narrowest of
\* the element types i8, i16 and i32 that holds its largest magnitude:
\* [1, 2, ..., 16] as ARRAY_PACKED_I8, in at most 18 bytes after the header.
NarrowestPacked(absMax) ==
  IF absMax <= INT8_MAX THEN TYPE_ARRAY_PACKED_I8
  ELSE IF absMax <= INT16_MAX THEN TYPE_ARRAY_PACKED_I16 ELSE TYPE_ARRAY_PACKED_I32
IsIntegerArray(v) ==
  /\ v.root = Ref(1) /\ Len(v.heap) = 1 /\ v.heap[1].k = "arr"
  /\ \A i \in 1..Len(v.heap[1].el) : v.heap[1].el[i].t = "num"
NumericArrayPacking ==
  \A r \in Returns :
    /\ (IsIntegerArray(r.value) /\ r.snap[6] \in PackedArrayTags)
         => r.snap[6] = NarrowestPacked(MaxAbs(r.value.heap[1].el))
    /\ (r.value = Sixteen /\ r.snap[6] \in PackedArrayTags)
         => r.snap[6] = TYPE_ARRAY_PACKED_I8 /\ r.len - 5 <= 18
\* what is written: [1, 2, ..., 16] as ARRAY_PACKED_I32, 67 bytes after the header
SixteenAsInt32 ==
  \E r \in Returns :
    r.value = Sixteen /\ r.snap[6] = TYPE_ARRAY_PACKED_I32 /\ r.snap[7] = 16 /\ r.len - 5 = 67

\* C20: with shareArrayBuffers, the second of two 16-byte views of one
\* 32-byte buffer is written as the share flag 1, the buffer id of the first
\* view, its byte offset 16 and its length 16, and deserialize returns two
\* views of one buffer with the byte offsets, lengths and contents of the
\* originals.
SharedRecord == <<TYPE_UINT8ARRAY, 1, 0, 16, 16>>
SharedTypedArrays ==
  /\ \A r \in Returns :
       (r.value = TwoViews /\ options.shareArrayBuffers)
         => SubSeq(r.snap, r.len - 4, r.len) = SharedRecord
  /\ \A d \in OwnDecodes :
       (Original(d) = TwoViews /\ options.shareArrayBuffers)
         => d.err = "none" /\ d.canon = returned[d.h].canon
\* the second view has been written as a shared record and the decode has
\* failed at it: the buffer rebuilt for the first view is 16 bytes long
SharedViewOutOfRange ==
  \E d \in OwnDecodes :
    /\ Original(d) = TwoViews /\ options.shareArrayBuffers
    /\ SubSeq(d.bytes, Len(d.bytes) - 4, Len(d.bytes)) = SharedRecord
    /\ d.err = "RangeError" /\ d.pos = Len(d.bytes)

\* the tag of the value passed to serialize: the byte after the header
RootTag(r) == r.snap[6]

\* C21: an instance built with simdOptimization off never returns bytes
\* whose value tag is one of ARRAY_PACKED_*, and an instance built with
\* preservePropertyDescriptors off never returns bytes whose value tag is
\* OBJECT_WITH_DESCRIPTORS.
OptionGating ==
  \A r \in Returns :
    /\ ~options.simdOptimization => RootTag(r) \notin PackedArrayTags
    /\ ~options.preservePropertyDescriptors => RootTag(r) # TYPE_OBJECT_WITH_DESCRIPTORS
\* what is written: with simdOptimization off, [1, 2, 3, 4, 5, 6, 7, 8] as
\* ARRAY_PACKED_I32 all the same
PackedWithSimdOff ==
  \E r \in Returns :
    /\ ~options.simdOptimization /\ r.value = Eight(1, Num(8))
    /\ RootTag(r) = TYPE_ARRAY_PACKED_I32 /\ r.snap[7] = 8

\* the last deserialize call of the instance
LastOwn == decoded[CHOOSE j \in 1..Len(decoded) :
                     decoded[j].who = "self" /\ \A l \in (j + 1)..Len(decoded) : decoded[l].who # "self"]
\* the instance has decoded, without an error, the bytes its one serialize
\* call returned: writer holds the tables of that call, reader those of the decode
PairDone ==
  /\ Len(returned) = 1 /\ reader.buffer = returned[1].snap /\ reader.err = "none"
  /\ \E j \in 1..Len(decoded) : decoded[j].who = "self"
\* the place of the object id in the graph of root: its number in the order
\* in which a walk from the root first meets the objects
PlaceOf(h, root, id) == IndexOf(Visit(h, root, <<>>), id)
\* the entry of the reader's table at the writer's id i - 1 is the
\* reconstruction of the object the writer gave that id: the two are at the
\* same place of the decoded and of the original graph
MirrorAt(i) ==
  /\ i <= Len(reader.deserializeRefs)
  /\ PlaceOf(heap, LastOwn.root, reader.deserializeRefs[i].id) = PlaceOf(input.heap, input.root, writer.refs[i])

\* C22: after an encode and the decode of its bytes, for every object the
\* writer registered, the reader's reference vector holds the reconstruction
\* of that object at the index that is the writer's id, for every kind of
\* object and every setting of deduplication and detectCircular.
ObjectTableMirror ==
  PairDone => \A i \in 1..Len(writer.refs) : MirrorAt(i)
\* g = new AggregateError([new Error("a")], "hi"); [g, g] on a default
\* instance: the writer's id 1 is g, the reader's entry 1 is the inner error
InnerErrorRegisteredFirst ==
  /\ PairDone /\ options = DefaultOptions
  /\ Len(writer.refs) = 3 /\ Len(reader.deserializeRefs) = 3
  /\ input.heap[writer.refs[2]].k = "err" /\ input.heap[writer.refs[2]].type = TYPE_AGGREGATE_ERROR
  /\ heap[reader.deserializeRefs[2].id].k = "err" /\ heap[reader.deserializeRefs[2].id].type = TYPE_ERROR
  /\ heap[reader.deserializeRefs[3].id].type = TYPE_AGGREGATE_ERROR

\* ["hi", "hello", "hello"]
HiHelloHello == One(Arr(<<Str(sHi), Str(sHello), Str(sHello)>>))
\* C23: with deduplication, a string longer than 3 that occurs again is
\* written as STRING_REF and its id, and after the decode of the bytes the
\* reader's string vector holds, at every id the writer assigned, the string
\* the writer registered under it, whatever shorter strings were written first.
StringTableMirror ==
  /\ \A r \in Returns :
       (options.deduplication /\ r.value = HiHelloHello)
         => SubSeq(r.snap, r.len - 1, r.len) = <<TYPE_STRING_REF, 0>>
  /\ (PairDone /\ options.deduplication)
       => \A i \in 1..Len(writer.strings) :
            i <= Len(reader.deserializeStrings) /\ reader.deserializeStrings[i] = writer.strings[i]
\* the second "hello" was written as STRING_REF 0 and the reader, whose
\* entry 0 is "hi", has returned ["hi", "hello", "hi"]
StringRefToShortString ==
  /\ PairDone /\ options.deduplication /\ input = HiHelloHello
  /\ SubSeq(reader.buffer, Len(reader.buffer) - 1, Len(reader.buffer)) = <<TYPE_STRING_REF, 0>>
  /\ writer.strings = <<sHello>> /\ reader.deserializeStrings = <<sHi, sHello>>
  /\ heap[LastOwn.root.id].el = <<Str(sHi), Str(sHello), Str(sHi)>>

\* C24: the decode of the bytes serialize returned stops at the position the
\* writer stopped at, the length of the returned bytes, for every payload,
\* typed arrays without elements and the values after them included.
CursorSymmetry ==
  \A d \in OwnDecodes : d.pos = returned[d.h].len
\* new BigInt64Array(0) is written in 9 bytes, without padding; the reader
\* aligns to 8 before the elements and stops at 16
AlignedPastTheEnd ==
  \E d \in OwnDecodes :
    /\ Original(d) = EmptyTyped(TYPE_BIGINT64ARRAY)
    /\ d.bytes = Header \o <<TYPE_BIGINT64ARRAY, 0, 0, 0>>
    /\ d.err = "none" /\ d.pos = 16

\* bit k of the 32-bit value u, and its i-th group of 7 bits (i from 1)
BitOf(u, k) ==
  IF k < 16 THEN (u.lo \div Pow2(k)) % 2 ELSE IF k < 32 THEN (u.hi \div Pow2(k - 16)) % 2 ELSE 0
GroupOf7(u, i) ==
  BitOf(u, 7 * i - 7) + 2 * BitOf(u, 7 * i - 6) + 4 * BitOf(u, 7 * i - 5) + 8 * BitOf(u, 7 * i - 4)
    + 16 * BitOf(u, 7 * i - 3) + 32 * BitOf(u, 7 * i - 2) + 64 * BitOf(u, 7 * i - 1)
\* the last call was writeVarint
VarintWritten == input # NoValue /\ input.op = "writeVarint"
\* the bytes the last call stored
Stored == SubSeq(writer.u8, input.before.pos + 1, writer.pos)

\* C25: for every u of 0..2^32 - 1, writeVarint stores at most 5 bytes, in a
\* buffer that holds 5 bytes from where it starts; byte i holds the i-th
\* group of 7 bits of u, low groups first, the groups not stored are 0, every
\* byte but the last has its high bit set and the last has it clear; and
\* readVarint at the first of these bytes returns u and stops after the last.
VarintCodec ==
  /\ VarintWritten =>
       /\ Len(Stored) \in 1..5
       /\ writer.size >= input.before.pos + 5
       /\ \A i \in 1..5 :
            IF i <= Len(Stored)
            THEN /\ Stored[i] % 128 = GroupOf7(input.arg, i)
                 /\ (Stored[i] >= 128) = (i < Len(Stored))
            ELSE GroupOf7(input.arg, i) = 0
  /\ \A d \in Decodes : d.err = "none" /\ d.value = d.u /\ d.pos = d.end
\* 2^32 - 1 has been written as FF FF FF FF 0F and read back
LargestVarint ==
  /\ VarintWritten /\ input.arg = Word(65535, 65535)
  /\ Stored = <<255, 255, 255, 255, 15>>
  /\ \E d \in Decodes : d.u = input.arg /\ d.value = Word(65535, 65535) /\ d.pos = input.before.pos + 5

\* a primitive of the pool has been called
Called == input # NoValue
\* x rounded up to a multiple of 128
RoundedUp(x) == CHOOSE m \in 0..(x + 127) : m % 128 = 0 /\ m >= x /\ m - x < 128
\* the last call was ensure(n) on a pool that could not hold n more bytes
HadToGrow == Called /\ input.op = "ensure" /\ input.before.pos + input.arg > input.before.size

\* C26: the capacity of the pool is a multiple of 128 and the position never
\* exceeds it; no call changes the bytes before the position it found; after
\* ensure(n) the capacity is at least pos + n, it is max(2 * old, pos + n + 128)
\* rounded up to a multiple of 128 when the old capacity was less than
\* pos + n, and the old capacity otherwise.
BufferGrowth ==
  /\ writer.size % 128 = 0
  /\ writer.pos <= writer.size
  /\ Called =>
       /\ Prefix(writer.u8, input.before.pos) = Prefix(input.before.u8, input.before.pos)
       /\ writer.size >= input.before.size
  /\ (Called /\ input.op = "ensure") =>
       /\ writer.size >= writer.pos + input.arg
       /\ writer.pos = input.before.pos
       /\ writer.size = IF HadToGrow
                        THEN RoundedUp(Max(2 * input.before.size, input.before.pos + input.arg + 128))
                        ELSE input.before.size
\* a pool of 256 bytes holding 130 has grown to 512 for ensure(129), keeping
\* the 130 bytes
GrownByDoubling ==
  /\ HadToGrow /\ input.before.size = 256 /\ input.before.pos = 130 /\ input.arg = 129
  /\ writer.size = 512 /\ writer.bufId = input.before.bufId + 1
  /\ Prefix(writer.u8, 130) = Block(130)

\* {f: () => 1}
MethodObject == One(Obj(<<P(sF, Fn(sArrow, sF))>>))
\* the blob of the method object up to the flag of its one key: the tag,
\* the count 1 and the key "f"
MethodKeyF == Header \o <<TYPE_OBJECT_WITH_METHODS, 1, TYPE_STRING_ASCII_TINY, 1, 102>>
\* the decoded object has the property key with the value val
HasProp(d, key, val) ==
  /\ d.err = "none" /\ d.root.t = "ref"
  /\ \E i \in 1..Len(heap[d.root.id].kv) : heap[d.root.id].kv[i].key = key /\ heap[d.root.id].kv[i].val = val

\* C27: with serializeFunctions off, the body of the method object
\* {f: () => 1} is the key "f", the is-callable flag 1 and the one byte
\* FUNCTION_PLACEHOLDER, and the decoder rebuilds f as a placeholder callable.
MethodObjectBody ==
  /\ \A r \in Returns :
       (~options.serializeFunctions /\ r.value = MethodObject)
         => r.snap = MethodKeyF \o <<1, TYPE_FUNCTION_PLACEHOLDER>>
  /\ \A d \in OwnDecodes :
       (~options.serializeFunctions /\ Original(d) = MethodObject) => HasProp(d, sF, PlaceholderFn)
\* what is written: the flag 0 and the tag NULL, and f is decoded as null
MethodWrittenAsNull ==
  \E d \in OwnDecodes :
    /\ ~options.serializeFunctions /\ Original(d) = MethodObject
    /\ d.bytes = MethodKeyF \o <<0, TYPE_NULL>>
    /\ HasProp(d, sF, Null)

\* the tag of an object by the order of the decisions: descriptors, then
\* methods, then no own properties, then the default prototype
ByPrecedence(obj) ==
  IF \E i \in 1..Len(obj.kv) : obj.kv[i].val.t = "getter" \/ ~obj.kv[i].e \/ ~obj.kv[i].w \/ ~obj.kv[i].c
  THEN TYPE_OBJECT_WITH_DESCRIPTORS
  ELSE IF \E i \in 1..Len(obj.kv) : obj.kv[i].val.t = "fn" THEN TYPE_OBJECT_WITH_METHODS
  ELSE IF obj.kv = <<>> THEN TYPE_OBJECT_EMPTY
  ELSE IF obj.proto = "Object" THEN TYPE_OBJECT_LITERAL
  ELSE TYPE_OBJECT_CONSTRUCTOR
\* an instance of Foo with an own accessor
FooWithAccessor == Foo(<<P(sA, Getter(Null, Num(1)))>>)

\* C28: an object that is not of a native type is tagged by this order of
\* decisions: an accessor or a non-default descriptor flag gives
\* OBJECT_WITH_DESCRIPTORS, else a callable property OBJECT_WITH_METHODS, else
\* no own properties OBJECT_EMPTY, else the default prototype OBJECT_LITERAL,
\* else OBJECT_CONSTRUCTOR; also for an instance of a class.
ClassificationPrecedence ==
  /\ \A r \in Returns :
       r.value \in ClassifyInputs => RootTag(r) = ByPrecedence(r.value.heap[1])
  /\ Len(returned) > 0 => detectObject(FooWithAccessor) = TYPE_OBJECT_WITH_DESCRIPTORS
\* what is written for new Foo() without own properties: OBJECT_CONSTRUCTOR,
\* the name "Foo" and the count 0
EmptyInstanceAsConstructor ==
  \E r \in Returns :
    /\ r.value = One(Foo(<<>>))
    /\ r.snap = Header \o <<TYPE_OBJECT_CONSTRUCTOR, TYPE_STRING_ASCII_TINY, 3>> \o sFoo \o <<0>>
    /\ detectObject(FooWithAccessor) = TYPE_OBJECT_CONSTRUCTOR

(***************************************************************************)
(* C29  Termination with cycle detection.  With detectCircular, the        *)
(* pre-walk marks the nodes met again on the current path and the main     *)
(* walk never descends into a cycle.                                       *)
(***************************************************************************)
\* the nodes of the value a depth-first walk from v, along every edge of the
\* value, meets again while they are on its current path
RECURSIVE ReEncountered(_, _, _)
ReEncountered(h, v, path) ==
  IF v.t # "ref" THEN {}
  ELSE IF v.id \in path THEN {v.id}
  ELSE UNION {ReEncountered(h, c, path \cup {v.id}) : c \in Range(CanonChildren(h[v.id]))}
\* a value whose acyclic descent stays within the call stack
Shallow(v) == Len(v.heap) + 2 <= MaxStack
\* C29: with detectCircular enabled, deduplication on or off, serialize of a
\* finite value, cyclic or acyclic, ends without exhausting the call stack, and
\* the pre-walk has marked exactly the nodes met again on the current path
TerminationWithCycleDetection ==
  (input # NoValue /\ options.detectCircular /\ Shallow(input)) =>
    /\ writer.err # "RangeError"
    /\ writer.circ = ReEncountered(input.heap, input.root, {})
\* C29, the case: an AggregateError that is one of its own errors is not marked
\* by the pre-walk, and without deduplication the main walk descends into it
\* until the call stack is exhausted
UnmarkedCycleOverflows ==
  /\ input = Value(<<Err(TYPE_AGGREGATE_ERROR, sHi, sStack, <<Ref(1)>>)>>, Ref(1))
  /\ options.detectCircular /\ ~options.deduplication
  /\ writer.circ = {}
  /\ writer.err = "RangeError"
  /\ thrown = "RangeError"

(***************************************************************************)
(* C30  Packed arrays lose no element.  An array classified as packed      *)
(* holds numbers only, and decodes to the same elements.                   *)
(***************************************************************************)
\* serialize returned r for an array that the classifier took as packed
PackedReturn(r) ==
  /\ r.value.root = Ref(1) /\ r.value.heap[1].k = "arr"
  /\ RootTag(r) \in PackedArrayTags
\* C30: whenever an array is written under an ARRAY_PACKED_* tag, every one of
\* its elements is a number, at the sampled indices and at the others, and the
\* array decoded from the bytes has the same length and the same element at
\* each index
PackedArraysLoseNoElement ==
  /\ \A r \in Returns :
       PackedReturn(r) => \A i \in 1..Len(r.value.heap[1].el) : IsNumber(r.value.heap[1].el[i])
  /\ \A d \in OwnDecodes : PackedReturn(returned[d.h]) => RoundTrips(d)
\* C30, the case: an array of 64 elements with a string at index 1, which the
\* sampling step of 2 passes over, is written as ARRAY_PACKED_F64 and decodes
\* with NaN at index 1
UnsampledStringPacked ==
  \E d \in OwnDecodes :
    /\ Original(d) = One(Arr(Put(Counting(64), 1, Str(sHi))))
    /\ RootTag(returned[d.h]) = TYPE_ARRAY_PACKED_F64
    /\ d.err = "none"
    /\ Len(d.canon.nodes[1].el) = 64
    /\ d.canon.nodes[1].el[2] = Flt("NaN")
    /\ d.canon.nodes[1].el[3] = Num(2)
====
